---- MODULE Spec2Model ----
(***************************************************************************)
(* Verification model of the astrological computation engine of           *)
(* ezoteric_bot (src/app/shared/astro).                                    *)
(*                                                                         *)
(* Angles are fixed-point numbers in millidegrees (1 degree = 1000), so    *)
(* that the second-decimal rounding of orbs and the 0.1 degree exactness   *)
(* threshold are visible.  Dates are day ordinals (integers).              *)
(*                                                                         *)
(* Each component of the engine has its own variables and its own          *)
(* specification (SpecTransit, SpecHouse, SpecRetro, SpecForecast,         *)
(* SpecPlanner, SpecWindow, SpecThreads, SpecDistance, SpecPhase); the     *)
(* variables of the other components stay idle.                            *)
(***************************************************************************)
EXTENDS Integers, Sequences, FiniteSets, TLC

VARIABLES
    \* ---- aspect finder (transits.py) ----
    tpc,        \* "call" before find_transit_aspects ran, "done" after
    natal,      \* natal ChartSnapshot: [objects, houses]
    transit,    \* transit ChartSnapshot: [objects, houses]
    multiplier, \* max_orb_multiplier in tenths (10 = 1.0)
    aspects,    \* the list returned by find_transit_aspects
    \* ---- house locator (transits.py) ----
    hpc, hHouses, hLongitude, hResult,
    \* ---- retrograde extractor (retrograde.py) ----
    rpc, rStart, rEnd, rStatuses, rPeriods,
    \* ---- forecast orchestrator (forecast.py, interpretation.py) ----
    fpc,        \* position in the call sequence of the forecast operations
    fProfile,   \* the profile dict handed to generate
    fProvider,  \* what the Ephemeris Provider does when asked for a chart
    fTemplates, \* the template store read by the renderer
    fOutcome,   \* what generate / build_chart returned or raised
    fCalls,     \* number of charts requested from the Ephemeris Provider
    fText,      \* what render_forecast returned
    fLabels,    \* what _format_missing_fields returned
    \* ---- action ranker (lunar_planner.py) ----
    ppc,        \* "call" before select_actions ran, "done" after
    pActions,   \* the ACTIONS catalog
    pPhase,     \* day.phase.key
    pPremium,   \* is_premium
    pLimit,     \* limit
    pSelected,  \* the list returned by select_actions
    \* ---- lunar day-context cache (lunar_planner.py) ----
    lCache,     \* self._day_cache: the items of the dict in insertion order
    lGen,       \* how many times _prune_cache has replaced the dict object
    lLog,       \* the build_window calls made so far: arguments and result
    lThreads,   \* per thread: position inside _compute_day and its locals
    lSize,      \* self._cache_size
    lLast,      \* the latest _compute_day call made on its own, and its result
    \* ---- pure functions called on their own ----
    upc,        \* "call" before the function ran, "done" after
    uFunc,      \* the function called
    uArgs,      \* its arguments
    uOut,       \* what it returned
    \* ---- UserStorage and its debounced save (storage.py) ----
    sLoop,      \* the event loop: "off", "startup", "running" or "closed"
    sData,      \* self.data: per user, how many changes it has received
    sFile,      \* the contents of the storage file, in the same terms
    sPending,   \* self._pending_save
    sTask,      \* self._save_task: "none", or the position of the coroutine
    sOp,        \* the latest operation: what it was and how it saved
    \* ---- NotificationScheduler passes (scheduler.py) ----
    cNow,       \* now: hours since the midnight that starts day 0
    cLast,      \* per user, profile["last_forecast_sent"]
    cSent,      \* per user and local date, the forecasts delivered
    cPass,      \* per user, what the latest forecast pass did
    aSky,       \* per day and planet, whether the provider reports it retrograde
    aUsers,     \* per user, notifications.enabled and retro_alerts
    aSent,      \* per user, planet, type and date, the alerts delivered
    aPass       \* the alerts the latest pass checked and what it did

transitVars  == <<tpc, natal, transit, multiplier, aspects>>
houseVars    == <<hpc, hHouses, hLongitude, hResult>>
retroVars    == <<rpc, rStart, rEnd, rStatuses, rPeriods>>
forecastVars == <<fpc, fProfile, fProvider, fTemplates, fOutcome, fCalls, fText, fLabels>>
plannerVars  == <<ppc, pActions, pPhase, pPremium, pLimit, pSelected>>
lunarVars    == <<lCache, lGen, lLog, lThreads, lSize, lLast>>
pureVars     == <<upc, uFunc, uArgs, uOut>>
storeVars    == <<sLoop, sData, sFile, sPending, sTask, sOp>>
schedVars    == <<cNow, cLast, cSent, cPass, aSky, aUsers, aSent, aPass>>
vars == <<transitVars, houseVars, retroVars, forecastVars, plannerVars, lunarVars,
          pureVars, storeVars, schedVars>>

None == "None"
\* None where the other values are integers: an absent date (dates are day
\* ordinals >= 1) and an absent house (houses are 1..12)
NoDate == -1
NoHouse == 0

\* ------------------------------------------------------------------------
\* Generic helpers
\* ------------------------------------------------------------------------
Abs(x) == IF x < 0 THEN -x ELSE x
Max(a, b) == IF a >= b THEN a ELSE b
Min(a, b) == IF a <= b THEN a ELSE b

\* d degrees in millidegrees
Deg(d) == d * 1000
FullCircle == Deg(360)
HalfCircle == Deg(180)

Range(s) == {s[i] : i \in DOMAIN s}

\* ------------------------------------------------------------------------
\* transits.py : tables
\* ------------------------------------------------------------------------
\* ASPECTS: name -> (exact angle, base orb), both in degrees; dict order.
AspectOrder == <<"conjunction", "sextile", "square", "trine", "opposition">>
ASPECTS ==
    [k \in Range(AspectOrder) |->
        CASE k = "conjunction" -> [angle |-> 0,   orb |-> 6]
          [] k = "sextile"     -> [angle |-> 60,  orb |-> 4]
          [] k = "square"      -> [angle |-> 90,  orb |-> 5]
          [] k = "trine"       -> [angle |-> 120, orb |-> 5]
          [] k = "opposition"  -> [angle |-> 180, orb |-> 6]]

\* PLANET_CODES of ephemeris.py: the iteration order of a chart's objects
PLANET_CODES == <<"Sun", "Moon", "Mercury", "Venus", "Mars",
                  "Jupiter", "Saturn", "Uranus", "Neptune", "Pluto">>

\* PLANET_WEIGHTS in tenths, default 0.5
PLANET_WEIGHTS(p) ==
    CASE p \in {"Sun", "Moon"} -> 10
      [] p \in {"Mercury", "Venus"} -> 8
      [] p = "Mars" -> 9
      [] p \in {"Jupiter", "Saturn"} -> 7
      [] p \in {"Uranus", "Neptune", "Pluto"} -> 6
      [] OTHER -> 5

\* aspect_bonus of _aspect_weight in tenths, default 0.8
AspectBonus(k) ==
    CASE k = "conjunction" -> 12
      [] k \in {"square", "opposition"} -> 11
      [] k = "trine" -> 9
      [] OTHER -> 8

\* ------------------------------------------------------------------------
\* transits.py : pure functions
\* ------------------------------------------------------------------------
\* variant without the fold at 180 degrees
angular_distance_unfolded(lon1, lon2) == Abs(lon1 - lon2) % FullCircle

angular_distance(lon1, lon2) ==
    LET diff == Abs(lon1 - lon2) % FullCircle
    IN  IF diff > HalfCircle THEN FullCircle - diff ELSE diff

calculate_orb(target_angle, actual_angle) == Abs(target_angle - actual_angle)

\* round(x, 2): to the nearest hundredth of a degree (10 millidegrees),
\* a tie going to the even hundredth
Round2(x) ==
    LET q == x \div 10
        r == x % 10
    IN  IF r < 5 THEN q * 10
        ELSE IF r > 5 THEN (q + 1) * 10
        ELSE IF q % 2 = 0 THEN q * 10 ELSE (q + 1) * 10

\* houses: either the empty map or a function 1..12 -> cusp longitude.
\* sorted by house id, the ids are 1..n and longs[i] is the cusp of house i.
\* lines 72-81: does the arc starting at start_lon contain the longitude;
\* last = the pair (last house, first house), tested as a wrapping arc
ArcHitExclusive(longitude, start_lon, end_lon, last) ==
    IF last
    THEN start_lon < longitude \/ longitude <= end_lon
    ELSE IF start_lon <= end_lon
         THEN start_lon < longitude /\ longitude <= end_lon
         ELSE longitude > start_lon \/ longitude <= end_lon
ArcHit(longitude, start_lon, end_lon, last) ==
    IF last
    THEN start_lon <= longitude \/ longitude < end_lon
    ELSE IF start_lon <= end_lon
         THEN start_lon <= longitude /\ longitude < end_lon
         ELSE longitude >= start_lon \/ longitude < end_lon

RECURSIVE HouseScan(_, _, _)
HouseScan(longitude, longs, idx) ==
    LET n == Len(longs)
        end_idx == IF idx = n THEN 1 ELSE idx + 1
    IN  IF ArcHit(longitude, longs[idx], longs[end_idx], end_idx = 1) THEN idx
        ELSE IF idx = n THEN n
        ELSE HouseScan(longitude, longs, idx + 1)

determine_house(longitude, houses) ==
    IF DOMAIN houses = {} THEN NoHouse
    ELSE LET longs == [i \in 1..Cardinality(DOMAIN houses) |-> houses[i] % FullCircle]
         IN  HouseScan(longitude, longs, 1)

is_applying(t, n, target_angle) ==
    LET relative == (t.lon - n.lon) % FullCircle
        d0 == relative - target_angle
        d1 == IF d0 > HalfCircle THEN d0 - FullCircle ELSE d0
        diff == IF d1 < -HalfCircle THEN d1 + FullCircle ELSE d1
    IN  IF diff > 0 THEN t.speed < 0 ELSE t.speed > 0

\* weight = base * aspect_bonus * orb_penalty, as an exact integer:
\* the float value times 100 * 60000 (60 is the common multiple of the
\* base orbs 4, 5, 6; orb_penalty = max(0.1, 1 - orb / base_orb)).
aspect_weight(transit_planet, natal_planet, aspect, orb) ==
    LET base == PLANET_WEIGHTS(transit_planet) + PLANET_WEIGHTS(natal_planet)
        b == Max(ASPECTS[aspect].orb, 1)
        penalty == Max(b * 100, b * 1000 - orb)
    IN  base * AspectBonus(aspect) * penalty * (60 \div b)

\* line 132-134: max_orb = base_orb * max_orb_multiplier; orb <= max_orb
\* (orb in millidegrees, base_orb in degrees, mult in tenths)
WithinOrbStrict(orb, base_orb, mult) == orb * 10 < Deg(base_orb) * mult
WithinOrb(orb, base_orb, mult) == orb * 10 <= Deg(base_orb) * mult

\* the objects of a chart in iteration order (dict order = PLANET_CODES order)
ObjectOrder(chart) ==
    LET Present(p) == p \in DOMAIN chart.objects
    IN  SelectSeq(PLANET_CODES, Present)

\* the TransitAspect built at lines 136-148 for one (transit, natal, aspect)
MakeAspect(nat, tr, t, n, k) ==
    LET transit_obj == tr.objects[t]
        natal_obj == nat.objects[n]
        angle == angular_distance(transit_obj.lon, natal_obj.lon)
        orb == calculate_orb(Deg(ASPECTS[k].angle), angle)
    IN  [transit_planet |-> t,
         natal_planet |-> n,
         aspect |-> k,
         orb |-> Round2(orb),
         exact |-> (orb <= 100),
         applying |-> is_applying(transit_obj, natal_obj, Deg(ASPECTS[k].angle)),
         weight |-> aspect_weight(t, n, k, orb),
         transit_house |-> determine_house(transit_obj.lon % FullCircle, nat.houses),
         natal_house |-> determine_house(natal_obj.lon % FullCircle, nat.houses),
         transit_position |-> transit_obj,
         natal_position |-> natal_obj]

\* results.sort(key=(weight, -orb), reverse=True): a stable sort, the larger
\* key first, equal keys keeping their order of insertion; first the
\* variant of the key without its second component
KeyGreaterWeightOnly(a, b) == a.weight > b.weight

KeyGreater(a, b) ==
    \/ a.weight > b.weight
    \/ a.weight = b.weight /\ (0 - a.orb) > (0 - b.orb)

RECURSIVE InsertByKey(_, _, _)
InsertByKey(x, sorted, i) ==
    IF i > Len(sorted) THEN Append(sorted, x)
    ELSE IF KeyGreater(x, sorted[i])
         THEN SubSeq(sorted, 1, i - 1) \o <<x>> \o SubSeq(sorted, i, Len(sorted))
         ELSE InsertByKey(x, sorted, i + 1)

RECURSIVE SortAspects(_, _)
SortAspects(todo, sorted) ==
    IF todo = <<>> THEN sorted
    ELSE SortAspects(Tail(todo), InsertByKey(Head(todo), sorted, 1))

\* the matches in loop order: transit objects, then natal objects, then kinds
MatchesInLoopOrder(nat, tr, mult) ==
    LET ts == ObjectOrder(tr)
        ns == ObjectOrder(nat)
        nK == Len(AspectOrder)
        total == Len(ts) * Len(ns) * nK
        T(i) == ts[((i - 1) \div (Len(ns) * nK)) + 1]
        N(i) == ns[(((i - 1) \div nK) % Len(ns)) + 1]
        K(i) == AspectOrder[((i - 1) % nK) + 1]
        all == [i \in 1..total |-> MakeAspect(nat, tr, T(i), N(i), K(i))]
        raw(i) == calculate_orb(Deg(ASPECTS[K(i)].angle),
                     angular_distance(tr.objects[T(i)].lon, nat.objects[N(i)].lon))
        idx == [i \in 1..total |-> i]
        Keep(i) == WithinOrb(raw(i), ASPECTS[K(i)].orb, mult)
        kept == SelectSeq(idx, Keep)
    IN  [j \in 1..Len(kept) |-> all[kept[j]]]

find_transit_aspects(nat, tr, mult) ==
    SortAspects(MatchesInLoopOrder(nat, tr, mult), <<>>)

\* ------------------------------------------------------------------------
\* Charts the Ephemeris Provider can return (ephemeris.py, ChartSnapshot)
\* ------------------------------------------------------------------------
\* _to_planet_position: retrograde is the sign of the longitude speed
PlanetPosition(name, lon, speed) ==
    [name |-> name, lon |-> lon, speed |-> speed, retrograde |-> (speed < 0)]

\* cusp i at asc + pattern[i]; both patterns are strictly increasing, so the
\* twelve cusps go once around the circle (opposite cusps 180 degrees apart)
EqualPattern == [i \in 1..12 |-> Deg(30) * (i - 1)]
UnequalPattern ==
    <<0, Deg(25), Deg(52), Deg(90), Deg(128), Deg(155),
      Deg(180), Deg(205), Deg(232), Deg(270), Deg(308), Deg(335)>>
Cusps(asc, pattern) == [i \in 1..12 |-> (asc + pattern[i]) % FullCircle]
NoHouses == <<>>

\* ------------------------------------------------------------------------
\* Aspect finder: inputs and the call
\* ------------------------------------------------------------------------
NatalSunLons == {Deg(10), Deg(350)}
OrbOffsets == {0, 96, 100, 104, 2000, 4000, 4001, 5000, 5001,
               6000, 6001, 7500, 7501, 9000, 9001, Deg(30)}
Signs == {-1, 1}
\* transiting Mars: around every exact aspect angle to a natal Sun at 10 deg,
\* on both sides of the natal object and on both sides of the exact angle
TransitMarsLons ==
    {(Deg(10) + s1 * Deg(ASPECTS[k].angle) + s2 * off) % FullCircle :
        s1 \in Signs, s2 \in Signs, k \in Range(AspectOrder), off \in OrbOffsets}
Speeds == {-500, 0, 1000}
Multipliers == {10, 15}
TransitHouseMaps == {NoHouses, Cusps(Deg(200), UnequalPattern)}

\* natal Moon opposite the natal Sun at 10 deg, or 0.4 deg past that, so that
\* one transit makes the same aspect to both with different orbs
NatalMoonLons == {Deg(190), Deg(190) + 400}
NatalCharts ==
    {[objects |-> ("Sun" :> PlanetPosition("Sun", ls, 1000)
                   @@ "Moon" :> PlanetPosition("Moon", lm, 13000)),
      houses |-> h] : ls \in NatalSunLons, lm \in NatalMoonLons, h \in TransitHouseMaps}

TransitCharts ==
    {[objects |-> ("Sun" :> PlanetPosition("Sun", sl, 1000)
                   @@ "Mars" :> PlanetPosition("Mars", ml, sp)),
      houses |-> NoHouses] :
        sl \in {Deg(100), Deg(250) + 50}, ml \in TransitMarsLons, sp \in Speeds}

IdleTransit ==
    /\ tpc = "idle" /\ natal = None /\ transit = None
    /\ multiplier = 0 /\ aspects = <<>>

InitTransit ==
    /\ tpc = "call"
    /\ natal \in NatalCharts
    /\ transit \in TransitCharts
    /\ multiplier \in Multipliers
    /\ aspects = <<>>

FindTransitAspects ==
    /\ tpc = "call"
    /\ aspects' = find_transit_aspects(natal, transit, multiplier)
    /\ tpc' = "done"
    /\ UNCHANGED <<natal, transit, multiplier>>
    /\ UNCHANGED <<houseVars, retroVars, forecastVars, plannerVars, lunarVars, pureVars, storeVars, schedVars>>

\* ------------------------------------------------------------------------
\* House locator: inputs and the call
\* ------------------------------------------------------------------------
Ascendants == {0, Deg(15), Deg(200), Deg(335), FullCircle - 1}
HouseMaps ==
    {NoHouses} \cup {Cusps(a, p) : a \in Ascendants, p \in {EqualPattern, UnequalPattern}}
\* callers pass longitude % 360: on every cusp, just before and after it,
\* and inside every house
HouseLongitudes(houses) ==
    {0, FullCircle - 1} \cup
    {(houses[i] + d) % FullCircle : i \in DOMAIN houses, d \in {-1, 0, 1, Deg(10)}}

IdleHouse ==
    /\ hpc = "idle" /\ hHouses = NoHouses /\ hLongitude = 0 /\ hResult = NoHouse

InitHouse ==
    /\ hpc = "call"
    /\ hHouses \in HouseMaps
    /\ hLongitude \in HouseLongitudes(hHouses)
    /\ hResult = NoHouse

DetermineHouse ==
    /\ hpc = "call"
    /\ hResult' = determine_house(hLongitude, hHouses)
    /\ hpc' = "done"
    /\ UNCHANGED <<hHouses, hLongitude>>
    /\ UNCHANGED <<transitVars, retroVars, forecastVars, plannerVars, lunarVars, pureVars, storeVars, schedVars>>

\* ------------------------------------------------------------------------
\* retrograde.py : period extraction
\* ------------------------------------------------------------------------
\* tracked_planets, restricted to two of the five planets; the extraction
\* reads one planet's column at a time
TrackedPlanets == <<"Mercury", "Venus">>

\* self.pre_alert_days
PreAlertDays == 3

\* The analysis window is padded by 30 days before start_date and 60 days
\* after end_date.  The model keeps the 1 : 2 proportion and scales the
\* padding down so that every boolean series over the window is explored.
PadBefore == 1
PadAfter == 2 * PadBefore

\* sorted(statuses.keys())
RECURSIVE SortedDates(_)
SortedDates(S) ==
    IF S = {} THEN <<>>
    ELSE LET m == CHOOSE x \in S : \A y \in S : x <= y
         IN  <<m>> \o SortedDates(S \ {m})

\* variant of _append_period that alerts on the first retrograde day
RetroPeriodAlertOnStart(planet, start, end) ==
    [planet |-> planet, start |-> start, end |-> end, pre_alert |-> start]

\* _append_period
RetroPeriod(planet, start, end) ==
    [planet |-> planet, start |-> start, end |-> end,
     pre_alert |-> start - PreAlertDays]

\* line 217: the period closes on the day before the first direct day
CloseDaySameDay(day) == day
CloseDay(day) == day - 1

\* line 213: the period opens on the first retrograde day
OpenDayNextDay(day) == day + 1
OpenDay(day) == day

\* one iteration of the loop over dates[1:]; w = [prev, cur, periods]
WalkStep(planet, statuses, first, day, w) ==
    LET status == statuses[day][planet]
    IN  IF ~w.prev /\ status
        THEN [prev |-> status, cur |-> OpenDay(day), periods |-> w.periods]
        ELSE IF w.prev /\ ~status
        THEN LET current_start == IF w.cur = NoDate THEN first ELSE w.cur
             IN  [prev |-> status, cur |-> NoDate,
                  periods |-> Append(w.periods,
                                 RetroPeriod(planet, current_start, CloseDay(day)))]
        ELSE [prev |-> status, cur |-> w.cur, periods |-> w.periods]

RECURSIVE Walk(_, _, _, _, _)
Walk(planet, statuses, dates, i, w) ==
    IF i > Len(dates) THEN w
    ELSE Walk(planet, statuses, dates, i + 1,
              WalkStep(planet, statuses, dates[1], dates[i], w))

\* lines 226-233: periods wholly outside the padded window are dropped
Relevant(period, start_date, end_date) ==
    /\ ~(period.end # NoDate /\ period.end < start_date - PadBefore)
    /\ ~(period.start > end_date + PadAfter)

\* variant of the sort that puts the latest period first
RECURSIVE SortLatestFirst(_, _)
SortLatestFirst(todo, sorted) ==
    IF todo = <<>> THEN sorted
    ELSE SortLatestFirst(Tail(todo), <<Head(todo)>> \o sorted)

\* filtered.sort(key=start): stable, ascending
RECURSIVE InsertByStart(_, _, _)
InsertByStart(x, sorted, i) ==
    IF i > Len(sorted) THEN Append(sorted, x)
    ELSE IF x.start < sorted[i].start
         THEN SubSeq(sorted, 1, i - 1) \o <<x>> \o SubSeq(sorted, i, Len(sorted))
         ELSE InsertByStart(x, sorted, i + 1)

RECURSIVE SortByStart(_, _)
SortByStart(todo, sorted) ==
    IF todo = <<>> THEN sorted
    ELSE SortByStart(Tail(todo), InsertByStart(Head(todo), sorted, 1))

extract_periods(planet, statuses, start_date, end_date) ==
    LET dates == SortedDates(DOMAIN statuses)
    IN  IF dates = <<>> THEN <<>>
        ELSE LET prev_status == statuses[dates[1]][planet]
                 w0 == [prev |-> prev_status,
                        cur |-> IF prev_status THEN dates[1] ELSE NoDate,
                        periods |-> <<>>]
                 w == Walk(planet, statuses, dates, 2, w0)
                 periods == IF w.prev /\ w.cur # NoDate
                            THEN Append(w.periods, RetroPeriod(planet, w.cur, NoDate))
                            ELSE w.periods
                 Keep(period) == Relevant(period, start_date, end_date)
             IN  SortByStart(SelectSeq(periods, Keep), <<>>)

\* get_periods: the sampled window, then one extraction per tracked planet
AnalysisDays(start_date, end_date) ==
    (start_date - PadBefore)..(end_date + PadAfter)

get_periods(statuses, start_date, end_date) ==
    [planet \in Range(TrackedPlanets) |->
        extract_periods(planet, statuses, start_date, end_date)]

\* ------------------------------------------------------------------------
\* Retrograde extractor: inputs and the call
\* ------------------------------------------------------------------------
StartDates == {100}
QueryLengths == {1, 3}
\* what the provider reports per sampled day: any boolean series for
\* Mercury; Venus direct throughout, retrograde throughout, or the opposite
\* of Mercury
VenusShapes == {"direct", "retrograde", "opposite"}
SkyOver(days) ==
    {[d \in days |->
        [planet \in Range(TrackedPlanets) |->
            IF planet = "Mercury" THEN m[d]
            ELSE CASE v = "direct" -> FALSE
                   [] v = "retrograde" -> TRUE
                   [] OTHER -> ~m[d]]] :
        m \in [days -> BOOLEAN], v \in VenusShapes}

IdleRetro ==
    /\ rpc = "idle" /\ rStart = 0 /\ rEnd = 0 /\ rStatuses = <<>> /\ rPeriods = <<>>

InitRetro ==
    /\ rpc = "call"
    /\ rStart \in StartDates
    /\ \E n \in QueryLengths : rEnd = rStart + n - 1
    /\ rStatuses \in SkyOver(AnalysisDays(rStart, rEnd))
    /\ rPeriods = <<>>

\* _compute_statuses samples the provider for every day of the window
GetPeriods ==
    /\ rpc = "call"
    /\ rPeriods' = get_periods(rStatuses, rStart, rEnd)
    /\ rpc' = "done"
    /\ UNCHANGED <<rStart, rEnd, rStatuses>>
    /\ UNCHANGED <<transitVars, houseVars, forecastVars, plannerVars, lunarVars, pureVars, storeVars, schedVars>>

\* ------------------------------------------------------------------------
\* ephemeris.py : build_chart / get_transit_chart
\* ------------------------------------------------------------------------
\* A call either returns a value or raises; nothing in between is observable.
Returned(v) == [kind |-> "returned", value |-> v]
Raised(e) == [kind |-> "raised", error |-> e]

NoChart == [objects |-> <<>>, houses |-> <<>>]

\* _normalize_house_id, by the form of the id the provider uses: an int is
\* kept, "H7" has its leading H stripped, and for any other text ("House7")
\* int() fails after lstrip("Hh") and the id becomes 0
normalize_house_id(style, n) ==
    CASE style = "int" -> n
      [] style = "H" -> n
      [] OTHER -> 0

\* lines 133-138: the cusps whose normalised id is positive
HousesOf(style, cusps) ==
    IF \A i \in DOMAIN cusps : normalize_house_id(style, i) <= 0
    THEN NoHouses
    ELSE cusps

\* _build_datetime (lines 63-76) catches ZoneInfo(tz_name) failing and uses
\* offset 0, so the zone name never decides whether build_chart returns.
\* Chart(chart_datetime, location, hsys=..., IDs=...) of the provider:
\* p.status = "fails" is the provider raising (house cusps unsupported for
\* the location, invalid latitude)
build_chart(p, objects) ==
    IF p.status = "fails"
    THEN Raised("EphemerisError")
    ELSE Returned([objects |-> objects, houses |-> HousesOf(p.idStyle, p.cusps)])

\* ------------------------------------------------------------------------
\* forecast.py : DailyTransitService.generate
\* ------------------------------------------------------------------------
\* Profile values are written as Python literals: None, '' and 'abc' are
\* None and strings, 55.75 is a float.
PyNone == "None"
EmptyStr == "''"
Falsy(v) == v \in {PyNone, EmptyStr}

\* float(v): a float or a numeric string converts, other strings raise
FloatRaises(v) == v \in {"'abc'", "'x'"}

\* _parse_time: never raises, falls back to 12:00 and clamps
parse_time(time_str) ==
    CASE time_str = "'10:30'" -> <<10, 30>>
      [] time_str = "'25:99'" -> <<23, 59>>
      [] OTHER -> <<12, 0>>

\* _parse_datetime: None for anything that is not YYYY-MM-DD (or ISO with T)
parse_datetime(date_str, time_str) ==
    CASE date_str = "'1990-05-15'" -> <<1990, 5, 15>> \o parse_time(time_str)
      [] date_str = "'1990-05-15T08:00:00'" -> <<1990, 5, 15>> \o parse_time(time_str)
      [] OTHER -> <<>>

\* variant that reports no field
MissingResultNoFields(fields) ==
    [natal_chart |-> NoChart, transit_chart |-> NoChart,
     aspects |-> <<>>, missing_fields |-> <<>>]

\* lines 87-95 and 98-106: the result for a profile that cannot be used
MissingResult(fields) ==
    [natal_chart |-> NoChart, transit_chart |-> NoChart,
     aspects |-> <<>>, missing_fields |-> fields]

\* ForecastResult.ok
ok(r) ==
    /\ r.missing_fields = <<>>
    /\ r.natal_chart # NoChart
    /\ r.transit_chart # NoChart

\* self.top_aspects
TopAspects == 6

\* lines 71-85
MissingFieldsLonFirst(profile) ==
    (IF Falsy(profile.birth_date) THEN <<"birth_date">> ELSE <<>>)
    \o (IF profile.timezone = PyNone THEN <<"timezone">> ELSE <<>>)
    \o (IF profile.lon = PyNone THEN <<"lon">> ELSE <<>>)
    \o (IF profile.lat = PyNone THEN <<"lat">> ELSE <<>>)
MissingFields(profile) ==
    (IF Falsy(profile.birth_date) THEN <<"birth_date">> ELSE <<>>)
    \o (IF profile.timezone = PyNone THEN <<"timezone">> ELSE <<>>)
    \o (IF profile.lat = PyNone THEN <<"lat">> ELSE <<>>)
    \o (IF profile.lon = PyNone THEN <<"lon">> ELSE <<>>)

\* the objects the provider computes for the birth instant and for noon of
\* the target date
NatalObjects ==
    "Sun" :> PlanetPosition("Sun", Deg(10), 1000)
    @@ "Moon" :> PlanetPosition("Moon", Deg(190), 13000)
TransitObjects(p) ==
    "Sun" :> PlanetPosition("Sun", Deg(100), 1000)
    @@ "Mars" :> PlanetPosition("Mars", p.marsLon, 500)

\* generate: [out |-> Returned(ForecastResult) or Raised(..), calls |-> n]
generate(profile, p) ==
    LET missing == MissingFields(profile)
        birth_time == IF Falsy(profile.birth_time) THEN "'12:00'" ELSE profile.birth_time
        birth_dt == parse_datetime(profile.birth_date, birth_time)
        natal_call == build_chart([p EXCEPT !.status = p.natal], NatalObjects)
        transit_call == build_chart([p EXCEPT !.status = p.transit], TransitObjects(p))
    IN  IF missing # <<>>
        THEN [out |-> Returned(MissingResult(missing)), calls |-> 0]
        ELSE IF birth_dt = <<>>
        THEN [out |-> Returned(MissingResult(<<"birth_date">>)), calls |-> 0]
        ELSE IF FloatRaises(profile.lat) \/ FloatRaises(profile.lon)
        THEN [out |-> Raised("ValueError"), calls |-> 0]
        ELSE IF natal_call.kind = "raised"
        THEN [out |-> natal_call, calls |-> 1]
        ELSE IF transit_call.kind = "raised"
        THEN [out |-> transit_call, calls |-> 2]
        ELSE LET found == find_transit_aspects(natal_call.value, transit_call.value, 10)
                 top == IF TopAspects # 0
                        THEN SubSeq(found, 1, Min(TopAspects, Len(found)))
                        ELSE found
             IN  [out |-> Returned([natal_chart |-> natal_call.value,
                                    transit_chart |-> transit_call.value,
                                    aspects |-> top,
                                    missing_fields |-> <<>>]),
                  calls |-> 2]

\* ------------------------------------------------------------------------
\* interpretation.py : render_forecast; router.py : _format_missing_fields
\* ------------------------------------------------------------------------
\* variant of the lookup that prefers the aspect-kind default
choose_template_default_first(templates, a) ==
    IF a.aspect \in templates.defaults THEN "default"
    ELSE IF <<a.transit_planet, a.aspect, a.natal_planet>> \in templates.exact
    THEN "exact"
    ELSE "none"

\* _choose_template: the list the variant is drawn from, "exact" for
\* planets[transit][aspect][natal], "default" for defaults[aspect], or
\* "none"; an empty list counts as no entry
choose_template(templates, a) ==
    IF <<a.transit_planet, a.aspect, a.natal_planet>> \in templates.exact
    THEN "exact"
    ELSE IF a.aspect \in templates.defaults THEN "default" ELSE "none"

\* _render_aspect: None without a template, else the paragraph, kept here as
\* the aspect it is about and the list its template came from
render_aspect(templates, a) ==
    [transit_planet |-> a.transit_planet, aspect |-> a.aspect,
     natal_planet |-> a.natal_planet, template |-> choose_template(templates, a)]

\* the text as its parts: which sentence, the names it lists, and the
\* paragraphs of the rendered aspects
render_forecast(templates, r) ==
    IF ~ok(r)
    THEN [sentence |-> "not_enough_data", names |-> r.missing_fields,
          paragraphs |-> <<>>]
    ELSE LET all == [i \in DOMAIN r.aspects |-> render_aspect(templates, r.aspects[i])]
             Hit(item) == item.template # "none"
             rendered == SelectSeq(all, Hit)
         IN  IF rendered = <<>>
             THEN [sentence |-> "no_significant_transits", names |-> <<>>,
                   paragraphs |-> <<>>]
             ELSE [sentence |-> "heading", names |-> <<>>, paragraphs |-> rendered]

\* the mapping of _format_missing_fields; the Russian labels are written
\* in Latin letters
FieldLabel(field) ==
    CASE field = "birth_date" -> "data rozhdeniya"
      [] field \in {"lat", "lon"} -> "koordinaty"
      [] field = "timezone" -> "chasovoy poyas"
      [] field = "profile" -> "profil polzovatelya"
      [] OTHER -> field

RECURSIVE DistinctLabels(_, _)
DistinctLabels(fields, human) ==
    IF fields = <<>> THEN human
    ELSE LET label == FieldLabel(Head(fields))
         IN  DistinctLabels(Tail(fields),
                 IF label \in Range(human) THEN human ELSE Append(human, label))

format_missing_fields(r) == DistinctLabels(r.missing_fields, <<>>)

\* ------------------------------------------------------------------------
\* Forecast orchestrator: inputs and the calls
\* ------------------------------------------------------------------------
Profiles ==
    [birth_date : {PyNone, EmptyStr, "'1990-05-15'", "'1990-13-40'",
                   "'15.05.1990'", "'1990-05-15T08:00:00'"},
     birth_time : {PyNone, "'25:99'"},
     timezone : {PyNone, EmptyStr, "'Europe/Moscow'", "'Mars/Olympus'"},
     lat : {PyNone, "0.0", "55.75", "'abc'"},
     lon : {PyNone, "37.62", "'x'"}]

Providers ==
    [status : {"idle"},
     natal : {"ok", "fails"},
     transit : {"ok", "fails"},
     idStyle : {"int", "House"},
     cusps : {Cusps(Deg(200), UnequalPattern)},
     marsLon : {Deg(100), Deg(40)}]

TemplateStores ==
    {[exact |-> {}, defaults |-> {}],
     [exact |-> {<<"Mars", "square", "Sun">>}, defaults |-> {}],
     [exact |-> {}, defaults |-> {"square", "trine"}],
     [exact |-> {<<"Mars", "square", "Sun">>}, defaults |-> {"square"}]}

NotRendered == [sentence |-> "", names |-> <<>>, paragraphs |-> <<>>]
NotCalled == [kind |-> "not_called"]

IdleForecast ==
    /\ fpc = "idle" /\ fProfile = None /\ fProvider = None /\ fTemplates = None
    /\ fOutcome = NotCalled /\ fCalls = 0 /\ fText = NotRendered /\ fLabels = <<>>

InitForecast ==
    /\ fpc \in {"call_generate", "call_build_chart"}
    /\ fProfile \in Profiles
    /\ fProvider \in Providers
    /\ fTemplates \in TemplateStores
    /\ fpc = "call_build_chart" =>
          /\ fProfile = [birth_date |-> "'1990-05-15'", birth_time |-> PyNone,
                         timezone |-> "'Europe/Moscow'", lat |-> "55.75",
                         lon |-> "37.62"]
          /\ fTemplates = [exact |-> {}, defaults |-> {}]
          /\ fProvider.transit = "ok" /\ fProvider.marsLon = Deg(100)
    /\ fOutcome = NotCalled /\ fCalls = 0
    /\ fText = NotRendered /\ fLabels = <<>>

\* EphemerisService.build_chart called on its own with valid arguments
BuildChart ==
    /\ fpc = "call_build_chart"
    /\ fOutcome' = build_chart([fProvider EXCEPT !.status = fProvider.natal], NatalObjects)
    /\ fCalls' = fCalls + 1
    /\ fpc' = "chart_done"
    /\ UNCHANGED <<fProfile, fProvider, fTemplates, fText, fLabels>>
    /\ UNCHANGED <<transitVars, houseVars, retroVars, plannerVars, lunarVars, pureVars, storeVars, schedVars>>

Generate ==
    /\ fpc = "call_generate"
    /\ LET g == generate(fProfile, fProvider)
       IN  /\ fOutcome' = g.out
           /\ fCalls' = fCalls + g.calls
    /\ fpc' = "generated"
    /\ UNCHANGED <<fProfile, fProvider, fTemplates, fText, fLabels>>
    /\ UNCHANGED <<transitVars, houseVars, retroVars, plannerVars, lunarVars, pureVars, storeVars, schedVars>>

\* TransitInterpreter.render_forecast on the result of generate
RenderForecast ==
    /\ fpc = "generated"
    /\ fOutcome.kind = "returned"
    /\ fText' = render_forecast(fTemplates, fOutcome.value)
    /\ fpc' = "rendered"
    /\ UNCHANGED <<fProfile, fProvider, fTemplates, fOutcome, fCalls, fLabels>>
    /\ UNCHANGED <<transitVars, houseVars, retroVars, plannerVars, lunarVars, pureVars, storeVars, schedVars>>

\* the router's _format_missing_fields on the same result
FormatMissingFields ==
    /\ fpc = "rendered"
    /\ fLabels' = format_missing_fields(fOutcome.value)
    /\ fpc' = "formatted"
    /\ UNCHANGED <<fProfile, fProvider, fTemplates, fOutcome, fCalls, fText>>
    /\ UNCHANGED <<transitVars, houseVars, retroVars, plannerVars, lunarVars, pureVars, storeVars, schedVars>>

\* ------------------------------------------------------------------------
\* lunar_planner.py : select_actions
\* ------------------------------------------------------------------------
\* RATING_SCORES["neutral"]
NeutralScore == 1

\* the order of slugs as Python compares strings
SlugOrder == <<"a_rest", "b_plan", "c_sign", "d_trip">>
SlugRank(slug) == CHOOSE i \in DOMAIN SlugOrder : SlugOrder[i] = slug

\* lines 85-92: the advice of an action for the phase, neutral by default
Suggestion(action, phase) ==
    [action |-> action,
     score |-> IF phase \in DOMAIN action.phase_advice
               THEN action.phase_advice[phase]
               ELSE NeutralScore,
     rating |-> IF phase \in DOMAIN action.phase_advice THEN "rated" ELSE "neutral"]

\* the sort key (score, -len(categories), slug), compared as Python
\* compares tuples
SuggestionKeyGreater(a, b) ==
    \/ a.score > b.score
    \/ /\ a.score = b.score
       /\ (0 - a.action.categories) > (0 - b.action.categories)
    \/ /\ a.score = b.score
       /\ a.action.categories = b.action.categories
       /\ SlugRank(a.action.slug) > SlugRank(b.action.slug)

\* candidates.sort(key=..., reverse=True): stable, the larger key first
RECURSIVE InsertSuggestion(_, _, _)
InsertSuggestion(x, sorted, i) ==
    IF i > Len(sorted) THEN Append(sorted, x)
    ELSE IF SuggestionKeyGreater(x, sorted[i])
         THEN SubSeq(sorted, 1, i - 1) \o <<x>> \o SubSeq(sorted, i, Len(sorted))
         ELSE InsertSuggestion(x, sorted, i + 1)

RECURSIVE SortSuggestions(_, _)
SortSuggestions(todo, sorted) ==
    IF todo = <<>> THEN sorted
    ELSE SortSuggestions(Tail(todo), InsertSuggestion(Head(todo), sorted, 1))

\* seq[:limit] for limit >= 0
Take(seq, limit) == SubSeq(seq, 1, Min(limit, Len(seq)))

\* variant of the tier filter that lets premium-only actions through
EligibleForAll(action, is_premium) == TRUE

\* lines 83-84: a premium-only action is skipped for a free user
Eligible(action, is_premium) == ~(action.premium_only /\ ~is_premium)

\* variant of the threshold that never relaxes below score 2
PreferredNoRelax(candidates, limit) ==
    LET AtLeast2(item) == item.score >= 2
    IN  SelectSeq(candidates, AtLeast2)

\* lines 103-107: score >= 2, else score >= 1, else the first limit of all
Preferred(candidates, limit) ==
    LET AtLeast2(item) == item.score >= 2
        AtLeast1(item) == item.score >= 1
        preferred2 == SelectSeq(candidates, AtLeast2)
        preferred1 == SelectSeq(candidates, AtLeast1)
    IN  IF preferred2 # <<>> THEN preferred2
        ELSE IF preferred1 # <<>> THEN preferred1
        ELSE Take(candidates, limit)

select_actions(actions, phase, is_premium, limit) ==
    LET Keep(action) == Eligible(action, is_premium)
        eligible == SelectSeq(actions, Keep)
        candidates == SortSuggestions(
                        [i \in DOMAIN eligible |-> Suggestion(eligible[i], phase)], <<>>)
    IN  Take(Preferred(candidates, limit), limit)

\* ------------------------------------------------------------------------
\* Action ranker: inputs and the call
\* ------------------------------------------------------------------------
\* number of actions in the catalog
MaxActions == 3
\* the slugs in catalog order (not sorted)
CatalogSlugs == <<"b_plan", "a_rest", "c_sign", "d_trip">>
Phases == {"new_moon", "full_moon"}
\* per-phase advice scores of one action: no entry at all, an entry for
\* every phase, an entry for one phase only
AdviceTables ==
    {<<>>,
     ("new_moon" :> 2 @@ "full_moon" :> 0),
     ("full_moon" :> 2)}
Limits == {0, 1, 2, 6}

Catalogs ==
    {[i \in 1..MaxActions |->
        [slug |-> CatalogSlugs[i], categories |-> c[i],
         premium_only |-> po[i], phase_advice |-> pa[i]]] :
        c \in [1..MaxActions -> {1, 2}],
        po \in [1..MaxActions -> BOOLEAN],
        pa \in [1..MaxActions -> AdviceTables]}

IdlePlanner ==
    /\ ppc = "idle" /\ pActions = <<>> /\ pPhase = None /\ pPremium = FALSE
    /\ pLimit = 0 /\ pSelected = <<>>

InitPlanner ==
    /\ ppc = "call"
    /\ pActions \in Catalogs
    /\ pPhase \in Phases
    /\ pPremium \in BOOLEAN
    /\ pLimit \in Limits
    /\ pSelected = <<>>

SelectActions ==
    /\ ppc = "call"
    /\ pSelected' = select_actions(pActions, pPhase, pPremium, pLimit)
    /\ ppc' = "done"
    /\ UNCHANGED <<pActions, pPhase, pPremium, pLimit>>
    /\ UNCHANGED <<transitVars, houseVars, retroVars, forecastVars, lunarVars, pureVars, storeVars, schedVars>>

\* ------------------------------------------------------------------------
\* lunar_planner.py : DayContext, _phase_from_angle, _compute_day
\* ------------------------------------------------------------------------
\* variant whose thresholds belong to the earlier bucket
phase_from_angle_inclusive(angle) ==
    IF angle <= Deg(20) \/ angle > Deg(340) THEN "new_moon"
    ELSE IF angle <= Deg(70) THEN "waxing_crescent"
    ELSE IF angle <= Deg(110) THEN "first_quarter"
    ELSE IF angle <= Deg(160) THEN "waxing_gibbous"
    ELSE IF angle <= Deg(200) THEN "full_moon"
    ELSE IF angle <= Deg(250) THEN "waning_gibbous"
    ELSE IF angle <= Deg(300) THEN "last_quarter"
    ELSE "waning_crescent"

\* _phase_from_angle: the first threshold the angle is below
phase_from_angle(angle) ==
    IF angle < Deg(20) \/ angle >= Deg(340) THEN "new_moon"
    ELSE IF angle < Deg(70) THEN "waxing_crescent"
    ELSE IF angle < Deg(110) THEN "first_quarter"
    ELSE IF angle < Deg(160) THEN "waxing_gibbous"
    ELSE IF angle < Deg(200) THEN "full_moon"
    ELSE IF angle < Deg(250) THEN "waning_gibbous"
    ELSE IF angle < Deg(300) THEN "last_quarter"
    ELSE "waning_crescent"

\* the time zones of the callers, and how far the Moon is from its UTC-noon
\* place at local noon there (Asia/Tokyo noon is 9 hours before UTC noon)
Zones == {"UTC", "Asia/Tokyo"}
MoonShift(tz_name) == IF tz_name = "Asia/Tokyo" THEN Deg(30) ELSE 0

\* get_ephemeris(dt_utc, (SUN, MOON)) of the provider: the longitudes at the
\* local noon of the date; the phase angle advances 60 degrees a day here, so
\* that a few days cover the whole cycle
SunLon(date, tz_name) == (Deg(10) + Deg(1) * date) % FullCircle
MoonLon(date, tz_name) ==
    (Deg(40) + Deg(61) * date + FullCircle - MoonShift(tz_name)) % FullCircle

\* 1000 * cos(radians(angle)) for the angles the provider produces here
\* (multiples of 30 degrees)
CosMilli(angle) ==
    LET folded == IF angle > HalfCircle THEN FullCircle - angle ELSE angle
    IN  CASE folded = Deg(0) -> 1000
          [] folded = Deg(30) -> 866
          [] folded = Deg(60) -> 500
          [] folded = Deg(90) -> 0
          [] folded = Deg(120) -> -500
          [] folded = Deg(150) -> -866
          [] folded = Deg(180) -> -1000

\* int(round((1 - cos(radians(angle))) * 50)), clamped to 0..100
Illumination(angle) ==
    LET scaled == (1000 - CosMilli(angle)) * 50
        rounded == (scaled + 500) \div 1000
    IN  Min(Max(rounded, 0), 100)

\* lines 147-167: the DayContext computed from the provider's longitudes
FreshDayContext(date, tz_name, natal_chart) ==
    LET sun_lon == SunLon(date, tz_name)
        moon_lon == MoonLon(date, tz_name)
        angle == (moon_lon - sun_lon) % FullCircle
    IN  [date |-> date,
         phase |-> phase_from_angle(angle),
         moon_sign |-> (moon_lon \div Deg(30)) % 12,
         illumination |-> Illumination(angle),
         angle |-> angle,
         natal_house |-> IF natal_chart # NoChart
                         THEN determine_house(moon_lon % FullCircle, natal_chart.houses)
                         ELSE NoHouse]

\* _get_moon_natal_house
get_moon_natal_house(date, tz_name, natal_chart) ==
    IF natal_chart = NoChart \/ natal_chart.houses = NoHouses
    THEN NoHouse
    ELSE determine_house(MoonLon(date, tz_name) % FullCircle, natal_chart.houses)

\* ---- the dict self._day_cache, as its items in insertion order ----
HasKey(dict, key) == \E i \in DOMAIN dict : dict[i].key = key
DictGet(dict, key) == dict[CHOOSE i \in DOMAIN dict : dict[i].key = key].value
\* dict[key] = value: an existing key keeps its place, a new one goes last
DictSet(dict, key, value) ==
    IF HasKey(dict, key)
    THEN [i \in DOMAIN dict |->
            IF dict[i].key = key THEN [key |-> key, value |-> value] ELSE dict[i]]
    ELSE Append(dict, [key |-> key, value |-> value])

\* keys.sort(key=lambda k: k[0]): stable, by date only
RECURSIVE InsertByDate(_, _, _)
InsertByDate(item, sorted, i) ==
    IF i > Len(sorted) THEN Append(sorted, item)
    ELSE IF item.key[1] < sorted[i].key[1]
         THEN SubSeq(sorted, 1, i - 1) \o <<item>> \o SubSeq(sorted, i, Len(sorted))
         ELSE InsertByDate(item, sorted, i + 1)

RECURSIVE SortByDate(_, _)
SortByDate(todo, sorted) ==
    IF todo = <<>> THEN sorted
    ELSE SortByDate(Tail(todo), InsertByDate(Head(todo), sorted, 1))

\* keys[-self._cache_size // 2:] : the unary minus binds first, so the slice
\* starts at floor(-size / 2) from the end
KeepFrom(size) == (0 - size) \div 2
LastItems(seq, from) ==
    IF from >= 0 THEN SubSeq(seq, from + 1, Len(seq))
    ELSE SubSeq(seq, Max(1, Len(seq) + from + 1), Len(seq))

\* _prune_cache
prune_cache(dict, size) ==
    IF Len(dict) > size
    THEN LastItems(SortByDate(dict, <<>>), KeepFrom(size))
    ELSE dict

\* _compute_day as one uninterrupted call: the cache after it and the
\* DayContext it returns
compute_day(dict, size, date, tz_name, natal_chart) ==
    LET cache_key == <<date, tz_name>>
    IN  IF HasKey(dict, cache_key)
        THEN LET cached == DictGet(dict, cache_key)
                 natal_house == get_moon_natal_house(date, tz_name, natal_chart)
             IN  [cache |-> dict,
                  result |-> IF natal_chart # NoChart /\ cached.natal_house = NoHouse
                                /\ natal_house # NoHouse
                             THEN [cached EXCEPT !.natal_house = natal_house]
                             ELSE cached]
        ELSE LET result == FreshDayContext(date, tz_name, natal_chart)
             IN  [cache |-> prune_cache(DictSet(dict, cache_key, result), size),
                  result |-> result]

\* build_window: _compute_day for start, start + 1, ... in turn
RECURSIVE build_window(_, _, _, _, _, _)
build_window(dict, size, start, tz_name, days, natal_chart) ==
    IF days <= 0 THEN [cache |-> dict, contexts |-> <<>>]
    ELSE LET first == compute_day(dict, size, start, tz_name, natal_chart)
             rest == build_window(first.cache, size, start + 1, tz_name,
                                  days - 1, natal_chart)
         IN  [cache |-> rest.cache, contexts |-> <<first.result>> \o rest.contexts]

\* ------------------------------------------------------------------------
\* Lunar day cache: inputs and the sequential calls
\* ------------------------------------------------------------------------
\* cache_size of the service (100 by default), scaled down
CacheSize == 2
\* number of build_window calls made on the service
MaxWindowCalls == 3
WindowStarts == {1, 2}
WindowDays == {1, 2}
\* natal charts of two users whose houses differ at every Moon position
\* used here, and a chart the provider returned without houses
ChartA == [objects |-> NatalObjects, houses |-> Cusps(Deg(0), EqualPattern)]
ChartB == [objects |-> NatalObjects, houses |-> Cusps(Deg(100), UnequalPattern)]
ChartBare == [objects |-> NatalObjects, houses |-> NoHouses]
\* natal_chart: None or a chart
LunarCharts == {NoChart, ChartA, ChartB, ChartBare}

NoThreads == <<>>
NoCall == [kind |-> "none"]
IdleLunar ==
    /\ lCache = <<>> /\ lGen = 0 /\ lLog = <<>> /\ lThreads = NoThreads
    /\ lSize = CacheSize /\ lLast = NoCall

\* a new service: empty cache, nothing called yet
InitWindow == IdleLunar

\* one build_window call of the router, run to completion on the event loop
BuildWindow ==
    /\ Len(lLog) < MaxWindowCalls
    /\ \E start \in WindowStarts, tz_name \in Zones, days \in WindowDays,
          natal_chart \in LunarCharts :
          LET r == build_window(lCache, lSize, start, tz_name, days, natal_chart)
          IN  /\ lCache' = r.cache
              /\ lLog' = Append(lLog, [start |-> start, tz_name |-> tz_name,
                                       days |-> days, natal_chart |-> natal_chart,
                                       contexts |-> r.contexts])
    /\ UNCHANGED <<lGen, lThreads, lSize, lLast>>
    /\ UNCHANGED <<transitVars, houseVars, retroVars, forecastVars, plannerVars, pureVars, storeVars, schedVars>>

\* ------------------------------------------------------------------------
\* Lunar day cache: services of every capacity, one _compute_day at a time
\* ------------------------------------------------------------------------
\* cache_size as the constructor accepts it: any int, here 0 and up
CacheSizes == 0..(CacheSize + 1)
\* the dates asked for: more than any of the caches holds
DayDates == 1..(CacheSize + 2)
DayZone == "UTC"
DayCharts == {NoChart, ChartA, ChartBare}

InitDay ==
    /\ lCache = <<>> /\ lGen = 0 /\ lLog = <<>> /\ lThreads = NoThreads
    /\ lSize \in CacheSizes /\ lLast = NoCall

\* one _compute_day call run to completion; cached is the entry the call
\* found, before is the number of entries it found
ComputeDay ==
    /\ \E date \in DayDates, natal_chart \in DayCharts :
          LET cache_key == <<date, DayZone>>
              r == compute_day(lCache, lSize, date, DayZone, natal_chart)
          IN  /\ lCache' = r.cache
              /\ lLast' = [kind |-> "call", date |-> date, tz_name |-> DayZone,
                           natal_chart |-> natal_chart,
                           hit |-> HasKey(lCache, cache_key),
                           cached |-> IF HasKey(lCache, cache_key)
                                      THEN <<DictGet(lCache, cache_key)>> ELSE <<>>,
                           before |-> Len(lCache),
                           result |-> r.result]
    /\ UNCHANGED <<lGen, lLog, lThreads, lSize>>
    /\ UNCHANGED <<transitVars, houseVars, retroVars, forecastVars, plannerVars, pureVars, storeVars, schedVars>>

\* ------------------------------------------------------------------------
\* Lunar day cache: _compute_day called from two threads
\* ------------------------------------------------------------------------
\* Each step below is one access to self._day_cache; the interpreter may
\* switch threads between any two of them.  The attribute is loaded anew by
\* every access, so only the store of line 168 can act on a dict object that
\* _prune_cache has replaced in the meantime: lGen tells the objects apart.
Threads == {"t1", "t2"}
\* number of _compute_day calls one thread makes
MaxThreadCalls == 2
\* the dates asked for: two more than the cache holds
ThreadDates == 1..(CacheSize + 2)
\* both threads serve the same user in the same zone, so a wrong result can
\* only come from the interleaving
ThreadZone == "UTC"
ThreadChart == ChartA

NoResult == [kind |-> "none"]
IdleThread ==
    [pc |-> "idle", date |-> NoDate, ref |-> 0, keep |-> <<>>, new |-> <<>>,
     result |-> NoResult, calls |-> 0]

\* the cache of a service that has served dates 1..n one after the other
RECURSIVE CacheAfterDates(_)
CacheAfterDates(n) ==
    IF n = 0 THEN <<>>
    ELSE compute_day(CacheAfterDates(n - 1), CacheSize, n, ThreadZone, ThreadChart).cache

\* the service is new or has filled its cache; no call is in progress
InitThreads ==
    /\ lCache \in {<<>>, CacheAfterDates(CacheSize)}
    /\ lGen = 0
    /\ lLog = <<>>
    /\ lThreads = [t \in Threads |-> IdleThread]
    /\ lSize = CacheSize /\ lLast = NoCall

ThreadKey(t) == <<lThreads[t].date, ThreadZone>>
ThreadFresh(t) == FreshDayContext(lThreads[t].date, ThreadZone, ThreadChart)
Finish(t, outcome) ==
    lThreads' = [lThreads EXCEPT ![t].pc = "idle", ![t].result = outcome,
                                 ![t].keep = <<>>, ![t].new = <<>>]
OthersIdle ==
    UNCHANGED <<lSize, lLast, transitVars, houseVars, retroVars, forecastVars, plannerVars, pureVars, storeVars, schedVars>>

\* a thread enters _compute_day
ThreadCall(t) ==
    /\ lThreads[t].pc = "idle"
    /\ lThreads[t].calls < MaxThreadCalls
    /\ \E date \in ThreadDates :
          lThreads' = [lThreads EXCEPT ![t].pc = "test", ![t].date = date,
                                       ![t].result = NoResult,
                                       ![t].calls = @ + 1]
    /\ UNCHANGED <<lCache, lGen, lLog>>
    /\ OthersIdle

\* line 122: cache_key in self._day_cache
ThreadTest(t) ==
    /\ lThreads[t].pc = "test"
    /\ lThreads' = [lThreads EXCEPT ![t].pc =
                        IF HasKey(lCache, ThreadKey(t)) THEN "read" ELSE "load"]
    /\ UNCHANGED <<lCache, lGen, lLog>>
    /\ OthersIdle

\* line 123: self._day_cache[cache_key], KeyError when the key is gone;
\* lines 125-136 work on locals
ThreadRead(t) ==
    /\ lThreads[t].pc = "read"
    /\ IF HasKey(lCache, ThreadKey(t))
       THEN LET cached == DictGet(lCache, ThreadKey(t))
                natal_house == get_moon_natal_house(lThreads[t].date, ThreadZone,
                                                    ThreadChart)
            IN  Finish(t, Returned(
                    IF ThreadChart # NoChart /\ cached.natal_house = NoHouse
                       /\ natal_house # NoHouse
                    THEN [cached EXCEPT !.natal_house = natal_house]
                    ELSE cached))
       ELSE Finish(t, Raised("KeyError"))
    /\ UNCHANGED <<lCache, lGen, lLog>>
    /\ OthersIdle

\* lines 137-168: the result is computed on locals, then the attribute
\* self._day_cache is loaded for the store
ThreadLoad(t) ==
    /\ lThreads[t].pc = "load"
    /\ lThreads' = [lThreads EXCEPT ![t].pc = "store", ![t].ref = lGen]
    /\ UNCHANGED <<lCache, lGen, lLog>>
    /\ OthersIdle

\* line 168: the store into the loaded dict object, which is lost when the
\* service no longer refers to that object
ThreadStore(t) ==
    /\ lThreads[t].pc = "store"
    /\ lCache' = IF lThreads[t].ref = lGen
                 THEN DictSet(lCache, ThreadKey(t), ThreadFresh(t))
                 ELSE lCache
    /\ lThreads' = [lThreads EXCEPT ![t].pc = "prune_test"]
    /\ UNCHANGED <<lGen, lLog>>
    /\ OthersIdle

\* line 60: len(self._day_cache) > self._cache_size
ThreadPruneTest(t) ==
    /\ lThreads[t].pc = "prune_test"
    /\ IF Len(lCache) > lSize
       THEN lThreads' = [lThreads EXCEPT ![t].pc = "prune_keys"]
       ELSE Finish(t, Returned(ThreadFresh(t)))
    /\ UNCHANGED <<lCache, lGen, lLog>>
    /\ OthersIdle

\* lines 61-63: keys, sorted, and the slice to keep
ThreadPruneKeys(t) ==
    /\ lThreads[t].pc = "prune_keys"
    /\ LET kept == LastItems(SortByDate(lCache, <<>>), KeepFrom(lSize))
       IN  lThreads' = [lThreads EXCEPT ![t].pc = "prune_copy",
                                        ![t].keep = [i \in DOMAIN kept |-> kept[i].key],
                                        ![t].new = <<>>]
    /\ UNCHANGED <<lCache, lGen, lLog>>
    /\ OthersIdle

\* line 64, one iteration of the comprehension: self._day_cache[k]
ThreadPruneCopy(t) ==
    /\ lThreads[t].pc = "prune_copy"
    /\ lThreads[t].keep # <<>>
    /\ LET k == Head(lThreads[t].keep)
       IN  IF HasKey(lCache, k)
           THEN lThreads' = [lThreads EXCEPT
                                ![t].keep = Tail(@),
                                ![t].new = Append(@, [key |-> k,
                                                      value |-> DictGet(lCache, k)])]
           ELSE Finish(t, Raised("KeyError"))
    /\ UNCHANGED <<lCache, lGen, lLog>>
    /\ OthersIdle

\* line 64, the assignment: the service refers to the new dict; line 170
ThreadPruneAssign(t) ==
    /\ lThreads[t].pc = "prune_copy"
    /\ lThreads[t].keep = <<>>
    /\ lCache' = lThreads[t].new
    /\ lGen' = lGen + 1
    /\ Finish(t, Returned(ThreadFresh(t)))
    /\ UNCHANGED lLog
    /\ OthersIdle

\* ------------------------------------------------------------------------
\* Pure functions called on their own: inputs and the calls
\* ------------------------------------------------------------------------
IdlePure ==
    /\ upc = "idle" /\ uFunc = None /\ uArgs = <<>> /\ uOut = <<>>

\* longitudes as a provider or a caller may hand them over: inside
\* [0, 360), on 0, 180 and 360, negative, and more than a turn away
Longitudes ==
    {0 - Deg(10), 0, 1, Deg(10), Deg(90), HalfCircle - 1, HalfCircle,
     HalfCircle + 1, Deg(190), Deg(350), FullCircle - 1, FullCircle,
     Deg(370), Deg(540), Deg(730)}

InitDistance ==
    /\ upc = "call" /\ uFunc = "angular_distance"
    /\ uArgs \in Longitudes \X Longitudes
    /\ uOut = <<>>

\* angular_distance called with the arguments in both orders
AngularDistance ==
    /\ upc = "call" /\ uFunc = "angular_distance"
    /\ uOut' = <<angular_distance(uArgs[1], uArgs[2]),
                 angular_distance(uArgs[2], uArgs[1])>>
    /\ upc' = "done"
    /\ UNCHANGED <<uFunc, uArgs>>
    /\ UNCHANGED <<transitVars, houseVars, retroVars, forecastVars, plannerVars, lunarVars, storeVars, schedVars>>

\* the thresholds of _phase_from_angle
PhaseThresholds ==
    {Deg(20), Deg(70), Deg(110), Deg(160), Deg(200), Deg(250), Deg(300), Deg(340)}
\* phase angles in [0, 360): on every threshold, one millidegree before and
\* after it, every five degrees, and the two ends of the range
PhaseAngles ==
    {t + e : t \in PhaseThresholds, e \in {-1, 0, 1}}
    \cup {Deg(5) * k : k \in 0..71}
    \cup {0, FullCircle - 1}

InitPhase ==
    /\ upc = "call" /\ uFunc = "phase_from_angle"
    /\ uArgs \in {<<a>> : a \in PhaseAngles}
    /\ uOut = <<>>

PhaseFromAngle ==
    /\ upc = "call" /\ uFunc = "phase_from_angle"
    /\ uOut' = <<phase_from_angle(uArgs[1])>>
    /\ upc' = "done"
    /\ UNCHANGED <<uFunc, uArgs>>
    /\ UNCHANGED <<transitVars, houseVars, retroVars, forecastVars, plannerVars, lunarVars, storeVars, schedVars>>

\* ------------------------------------------------------------------------
\* calculations.py: the life path number of a birth date
\* ------------------------------------------------------------------------
\* a date string is the sequence of its characters: the digits 0..9 and Dot
Dot == 10

\* str.split("."): the fields between the dots
RECURSIVE SplitDots(_)
SplitDots(s) ==
    IF \A i \in DOMAIN s : s[i] # Dot THEN <<s>>
    ELSE LET k == CHOOSE i \in DOMAIN s :
                      s[i] = Dot /\ \A j \in 1..(i - 1) : s[j] # Dot
         IN  <<SubSeq(s, 1, k - 1)>> \o SplitDots(SubSeq(s, k + 1, Len(s)))

\* int(field) of a non-empty field of digits
RECURSIVE ParseInt(_)
ParseInt(field) ==
    IF Len(field) = 1 THEN field[1]
    ELSE ParseInt(SubSeq(field, 1, Len(field) - 1)) * 10 + field[Len(field)]

\* str(n): the decimal digits of n >= 0
RECURSIVE DigitsOf(_)
DigitsOf(n) == IF n < 10 THEN <<n>> ELSE DigitsOf(n \div 10) \o <<n % 10>>

\* f"{n:02d}"
TwoDigits(n) == IF n < 10 THEN <<0, n>> ELSE DigitsOf(n)

RECURSIVE SumDigits(_)
SumDigits(ds) == IF ds = <<>> THEN 0 ELSE ds[1] + SumDigits(Tail(ds))

\* the numbers the reduction loop stops on although they have two digits
MasterNumbers == {11, 22, 33}

\* variant of the loop that reduces every number above 9
RECURSIVE ReduceAll(_)
ReduceAll(total) ==
    IF total > 9 THEN ReduceAll(SumDigits(DigitsOf(total))) ELSE total

\* while total > 9 and total not in [11, 22, 33]: total = digit sum of total
RECURSIVE Reduce(_)
Reduce(total) ==
    IF total > 9 /\ total \notin MasterNumbers
    THEN Reduce(SumDigits(DigitsOf(total)))
    ELSE total

\* calculate_life_path_number: 0 when the string does not unpack into three
\* integers (the bare except), else the reduced digit sum
calculate_life_path_number(birth_date) ==
    LET parts == SplitDots(birth_date)
    IN  IF Len(parts) # 3 \/ \E i \in DOMAIN parts : parts[i] = <<>>
        THEN 0
        ELSE LET day   == ParseInt(parts[1])
                 month == ParseInt(parts[2])
                 year  == ParseInt(parts[3])
             IN  Reduce(SumDigits(TwoDigits(day) \o TwoDigits(month) \o DigitsOf(year)))

\* the string DD.MM.YYYY of a date
DateString(day, month, year) ==
    <<day \div 10, day % 10, Dot, month \div 10, month % 10, Dot,
      year \div 1000, (year \div 100) % 10, (year \div 10) % 10, year % 10>>

IsLeap(year) == year % 4 = 0 /\ (year % 100 # 0 \/ year % 400 = 0)
DaysInMonth(month, year) ==
    IF month = 2 THEN (IF IsLeap(year) THEN 29 ELSE 28)
    ELSE IF month \in {4, 6, 9, 11} THEN 30 ELSE 31

\* valid birth dates: the dates of the tests, month ends, a leap day
BirthDates ==
    {DateString(dd, mm, yyyy) :
        <<dd, mm, yyyy>> \in {t \in {1, 15, 28, 29, 30, 31} \X {1, 2, 5, 9, 12}
                                     \X {1980, 1990, 1999, 2000} :
                                 t[1] <= DaysInMonth(t[2], t[3])}}

InitLifePath ==
    /\ upc = "call" /\ uFunc = "calculate_life_path_number"
    /\ uArgs \in {<<b>> : b \in BirthDates}
    /\ uOut = <<>>

CalculateLifePathNumber ==
    /\ upc = "call" /\ uFunc = "calculate_life_path_number"
    /\ uOut' = <<calculate_life_path_number(uArgs[1])>>
    /\ upc' = "done"
    /\ UNCHANGED <<uFunc, uArgs>>
    /\ UNCHANGED <<transitVars, houseVars, retroVars, forecastVars, plannerVars, lunarVars, storeVars, schedVars>>

\* ------------------------------------------------------------------------
\* storage.py: UserStorage and its debounced save
\* ------------------------------------------------------------------------
StoreUsers == {"u1", "u2"}
\* changes one user's record receives
MaxChanges == 2
NoChanges == [u \in StoreUsers |-> 0]

IdleStore ==
    /\ sLoop = "off" /\ sData = NoChanges /\ sFile = NoChanges
    /\ sPending = FALSE /\ sTask = "none" /\ sOp = [kind |-> "none"]

\* __init__: the data is what the file holds, nothing is pending, no task
InitStore ==
    /\ sLoop = "startup" /\ sData = NoChanges /\ sFile = NoChanges
    /\ sPending = FALSE /\ sTask = "none" /\ sOp = [kind |-> "none"]

\* the bot starts polling: the event loop runs from here on
RunLoop ==
    /\ sLoop = "startup"
    /\ sLoop' = "running"
    /\ sOp' = [kind |-> "run"]
    /\ UNCHANGED <<sData, sFile, sPending, sTask>>
    /\ UNCHANGED <<transitVars, houseVars, retroVars, forecastVars, plannerVars, lunarVars, pureVars, schedVars>>

\* _save_data_async run from start to end on data, with the flag as given:
\* the file and the flag it leaves
save_data_async(data, file, pending) ==
    IF ~pending THEN [file |-> file, pending |-> pending]
    ELSE [file |-> data, pending |-> FALSE]

\* _save_data(immediate): the file, the flag and the task it leaves.
\* has_loop is false when asyncio.get_event_loop() raises RuntimeError.
save_data(immediate, loop, has_loop, data, file, pending, task) ==
    IF immediate
    THEN [file |-> data, pending |-> FALSE, task |-> task]
    ELSE IF ~has_loop
    THEN [file |-> data, pending |-> FALSE, task |-> task]
    ELSE IF loop = "running"
    THEN [file |-> file, pending |-> pending,
          task |-> IF task \in {"none", "done"} THEN "created" ELSE task]
    ELSE LET r == save_data_async(data, file, pending)
         IN  [file |-> r.file, pending |-> r.pending, task |-> task]

\* a mutating operation of the storage (update_user, mark_retro_alert, ...):
\* it changes one user's record and ends with _save_data(); the reset of
\* line 460 saves with immediate=True.  Once the loop runs
\* get_event_loop() returns it; before that it returns an idle loop or
\* raises.
StorageChange ==
    /\ sLoop \in {"startup", "running"}
    /\ \E u \in StoreUsers, immediate \in BOOLEAN, has_loop \in BOOLEAN :
          /\ sData[u] < MaxChanges
          /\ sLoop = "running" => has_loop
          /\ LET data == [sData EXCEPT ![u] = @ + 1]
                 r == save_data(immediate, sLoop, has_loop, data, sFile,
                                sPending, sTask)
             IN  /\ sData' = data
                 /\ sFile' = r.file
                 /\ sPending' = r.pending
                 /\ sTask' = r.task
                 /\ sOp' = [kind |-> "change", immediate |-> immediate,
                            loop |-> sLoop, has_loop |-> has_loop]
    /\ UNCHANGED sLoop
    /\ UNCHANGED <<transitVars, houseVars, retroVars, forecastVars, plannerVars, lunarVars, pureVars, schedVars>>

\* the task created by _save_data runs _save_data_async up to its next
\* await: the test of the flag (lines 78-80), the debounce sleep (lines
\* 87-89), the write in the executor and the reset of the flag (lines 94-96)
SaveTaskStep ==
    /\ sLoop = "running"
    /\ sTask \in {"created", "sleeping", "writing"}
    /\ CASE sTask = "created" ->
              /\ IF ~sPending THEN sTask' = "done"
                 ELSE \E recent \in BOOLEAN :
                         sTask' = IF recent THEN "sleeping" ELSE "writing"
              /\ UNCHANGED <<sFile, sPending>>
         [] sTask = "sleeping" ->
              /\ sTask' = "writing"
              /\ UNCHANGED <<sFile, sPending>>
         [] sTask = "writing" ->
              /\ sFile' = sData
              /\ sPending' = FALSE
              /\ sTask' = "done"
    /\ sOp' = [kind |-> "task"]
    /\ UNCHANGED <<sLoop, sData>>
    /\ UNCHANGED <<transitVars, houseVars, retroVars, forecastVars, plannerVars, lunarVars, pureVars, schedVars>>

\* flush_pending_saves at shutdown: with the flag set it waits for the lock,
\* saves and waits for the task; without the flag it does nothing
FlushPendingSaves ==
    /\ sLoop = "running"
    /\ LET r == save_data_async(sData, sFile, sPending)
       IN  /\ sFile' = r.file
           /\ sPending' = r.pending
           /\ sTask' = IF sPending /\ sTask # "none" THEN "done" ELSE sTask
    /\ sLoop' = "closed"
    /\ sOp' = [kind |-> "flush"]
    /\ UNCHANGED sData
    /\ UNCHANGED <<transitVars, houseVars, retroVars, forecastVars, plannerVars, lunarVars, pureVars, schedVars>>

\* ------------------------------------------------------------------------
\* scheduler.py: the passes of the notification scheduler
\* ------------------------------------------------------------------------
IdleSched ==
    /\ cNow = 0 /\ cLast = <<>> /\ cSent = <<>> /\ cPass = <<>>
    /\ aSky = <<>> /\ aUsers = <<>> /\ aSent = <<>> /\ aPass = <<>>

\* the users in the order the storages list them
SchedUsers == <<"u1", "u2", "u3">>
\* profile["timezone"]; the third user has none
Timezone(u) ==
    CASE u = "u1" -> "UTC" [] u = "u2" -> "Pacific/Tongatapu" [] OTHER -> None
\* hours the zone is ahead of the clock of the host, which runs on UTC
UtcOffset(tz_name) == IF tz_name = "Pacific/Tongatapu" THEN 13 ELSE 0
\* is_premium(user_id)
PremiumUsers == {"u1"}

\* the days the clock of the host runs through
MaxDays == 2
DayHours == 24
LastHour == DayHours * MaxDays - 1
\* the local dates the users see meanwhile
LocalDates == 0..MaxDays

\* self.target_hour, and the literal of line 294; a pass is due at minute 0
TargetHour == 11

\* now.astimezone(tz): the local date and hour
LocalDate(now, tz_name) == (now + UtcOffset(tz_name)) \div DayHours
LocalHour(now, tz_name) == (now + UtcOffset(tz_name)) % DayHours

\* one more minute of the loop of start(): the clock moves on
Tick ==
    /\ cNow < LastHour
    /\ cNow' = cNow + 1
    /\ UNCHANGED <<cLast, cSent, cPass, aSky, aUsers, aSent, aPass>>
    /\ UNCHANGED <<transitVars, houseVars, retroVars, forecastVars, plannerVars, lunarVars, pureVars, storeVars>>

\* what generate and bot.send_message do in one iteration
GenerateOutcomes == {"ok", "missing_fields", "raises"}
SendOutcomes == {"ok", "fails"}
\* forecasts of one local date after which the passes are no longer followed
MaxSends == 2

\* variant of the iteration that marks the date before it sends
forecast_marks_first(tz_name, last, now, gen, send) ==
    LET local_date == LocalDate(now, tz_name)
    IN  IF tz_name = None THEN [kind |-> "no_timezone", date |-> NoDate, last |-> last]
        ELSE IF LocalHour(now, tz_name) # TargetHour
        THEN [kind |-> "not_due", date |-> local_date, last |-> last]
        ELSE IF last = local_date
        THEN [kind |-> "already_sent", date |-> local_date, last |-> last]
        ELSE IF gen = "raises"
        THEN [kind |-> "generate_raised", date |-> local_date, last |-> last]
        ELSE IF gen = "missing_fields"
        THEN [kind |-> "missing_fields", date |-> local_date, last |-> last]
        ELSE IF send = "fails"
        THEN [kind |-> "send_failed", date |-> local_date, last |-> local_date]
        ELSE [kind |-> "sent", date |-> local_date, last |-> local_date]

\* one iteration of the loop of _send_daily_transit_forecasts: what it did,
\* for which local date, and last_forecast_sent after it
forecast_for_user(tz_name, last, now, gen, send) ==
    LET local_date == LocalDate(now, tz_name)
    IN  IF tz_name = None THEN [kind |-> "no_timezone", date |-> NoDate, last |-> last]
        ELSE IF LocalHour(now, tz_name) # TargetHour
        THEN [kind |-> "not_due", date |-> local_date, last |-> last]
        ELSE IF last = local_date
        THEN [kind |-> "already_sent", date |-> local_date, last |-> last]
        ELSE IF gen = "raises"
        THEN [kind |-> "generate_raised", date |-> local_date, last |-> last]
        ELSE IF gen = "missing_fields"
        THEN [kind |-> "missing_fields", date |-> local_date, last |-> last]
        ELSE IF send = "fails"
        THEN [kind |-> "send_failed", date |-> local_date, last |-> last]
        ELSE [kind |-> "sent", date |-> local_date, last |-> local_date]

\* profiles without last_forecast_sent, nothing delivered yet
InitForecastPass ==
    /\ cNow = 0
    /\ cLast = [u \in Range(SchedUsers) |-> NoDate]
    /\ cSent = [u \in Range(SchedUsers) |-> [d \in LocalDates |-> 0]]
    /\ cPass = [u \in Range(SchedUsers) |->
                  [kind |-> "none", date |-> NoDate, before |-> NoDate]]
    /\ aSky = <<>> /\ aUsers = <<>> /\ aSent = <<>> /\ aPass = <<>>

\* _send_daily_transit_forecasts(now): every profile in turn
SendDailyTransitForecasts ==
    /\ \A u \in Range(SchedUsers), d \in LocalDates : cSent[u][d] < MaxSends
    /\ \E gen \in [Range(SchedUsers) -> GenerateOutcomes],
          send \in [Range(SchedUsers) -> SendOutcomes] :
          LET r == [u \in Range(SchedUsers) |->
                      forecast_for_user(Timezone(u), cLast[u], cNow, gen[u], send[u])]
          IN  /\ cLast' = [u \in Range(SchedUsers) |-> r[u].last]
              /\ cSent' = [u \in Range(SchedUsers) |->
                             IF r[u].kind = "sent"
                             THEN [cSent[u] EXCEPT ![r[u].date] = @ + 1]
                             ELSE cSent[u]]
              /\ cPass' = [u \in Range(SchedUsers) |->
                             [kind |-> r[u].kind, date |-> r[u].date,
                              before |-> cLast[u]]]
    /\ UNCHANGED <<cNow, aSky, aUsers, aSent, aPass>>
    /\ UNCHANGED <<transitVars, houseVars, retroVars, forecastVars, plannerVars, lunarVars, pureVars, storeVars>>

\* ------------------------------------------------------------------------
\* scheduler.py: the pass that sends the retrograde alerts
\* ------------------------------------------------------------------------
\* end_date = start_date + 120 days, scaled down like the padding
HorizonDays == 2
\* every day a pass can sample
SkyDays == (0 - PadBefore)..(MaxDays - 1 + HorizonDays + PadAfter)
\* the days on which the provider reports Mercury and Venus retrograde:
\* two periods of Mercury two days apart; a single late day; Mercury
\* retrograde throughout; nothing retrograde
SkyShapes ==
    {[Mercury |-> {1, 3, 4}, Venus |-> {1, 2}],
     [Mercury |-> {4}, Venus |-> {}],
     [Mercury |-> SkyDays, Venus |-> {2, 3}],
     [Mercury |-> {}, Venus |-> {}]}
SkyOf(shape) ==
    [d \in SkyDays |-> [planet \in Range(TrackedPlanets) |-> d \in shape[planet]]]

AlertTypes == {"pre", "start"}
\* what _send_retro_message does: delivers (at once or on a retry), gives
\* up on error 403 after disabling the notifications, gives up on error
\* 400, or raises after the last retry
RetroSendOutcomes == {"ok", "blocked", "bad_request", "raises"}

\* get_user_timezone: the zone of the profile, else "UTC"
UserTimezone(u) == IF Timezone(u) = None THEN "UTC" ELSE Timezone(u)

NoAlerts == [planet \in Range(TrackedPlanets) |-> [t \in AlertTypes |-> NoDate]]

InitRetroPass ==
    /\ cNow = 0 /\ cLast = <<>> /\ cSent = <<>> /\ cPass = <<>>
    /\ aSky \in {SkyOf(shape) : shape \in SkyShapes}
    /\ aUsers = [u \in Range(SchedUsers) |->
                   [enabled |-> u # "u3", retro_alerts |-> NoAlerts]]
    /\ aSent = [key \in Range(SchedUsers) \X Range(TrackedPlanets) \X AlertTypes
                        \X LocalDates |-> 0]
    /\ aPass = <<>>

\* variant of has_retro_alert that never finds the date
has_retro_alert_never(user, planet, alert_type, date) == FALSE

\* has_retro_alert
has_retro_alert(user, planet, alert_type, date) ==
    user.retro_alerts[planet][alert_type] = date

\* mark_retro_alert
mark_retro_alert(user, planet, alert_type, date) ==
    [user EXCEPT !.retro_alerts[planet][alert_type] = date]

\* one of the two tests of the innermost loop, with what follows it; st is
\* [users, sent, log, aborted], aborted once _send_retro_message has raised
alert_check(st, u, planet, alert_type, date, local_date, outcome) ==
    IF st.aborted \/ date # local_date THEN st
    ELSE IF has_retro_alert(st.users[u], planet, alert_type, date)
    THEN [st EXCEPT !.log = Append(@, [user |-> u, planet |-> planet,
                                      type |-> alert_type, date |-> date,
                                      had |-> TRUE, outcome |-> "none"])]
    ELSE LET entry == [user |-> u, planet |-> planet, type |-> alert_type,
                       date |-> date, had |-> FALSE, outcome |-> outcome]
             key == <<u, planet, alert_type, date>>
         IN  IF outcome = "raises"
             THEN [st EXCEPT !.log = Append(@, entry), !.aborted = TRUE]
             ELSE [users |-> [st.users EXCEPT
                                ![u] = mark_retro_alert(
                                          [@ EXCEPT !.enabled =
                                              IF outcome = "blocked" THEN FALSE ELSE @],
                                          planet, alert_type, date)],
                   sent |-> IF outcome = "ok"
                            THEN [st.sent EXCEPT ![key] = @ + 1] ELSE st.sent,
                   log |-> Append(st.log, entry),
                   aborted |-> FALSE]

\* for period in periods_map.get(planet, [])
RECURSIVE alerts_for_periods(_, _, _, _, _, _, _)
alerts_for_periods(st, u, planet, periods, i, local_date, outcome) ==
    IF i > Len(periods) THEN st
    ELSE LET pre == alert_check(st, u, planet, "pre", periods[i].pre_alert,
                                local_date, outcome)
             start == alert_check(pre, u, planet, "start", periods[i].start,
                                  local_date, outcome)
         IN  alerts_for_periods(start, u, planet, periods, i + 1, local_date, outcome)

\* for planet in allowed_planets
RECURSIVE alerts_for_planets(_, _, _, _, _, _, _)
alerts_for_planets(st, u, planets, j, periods_map, local_date, outcome) ==
    IF j > Len(planets) THEN st
    ELSE alerts_for_planets(
             alerts_for_periods(st, u, planets[j], periods_map[planets[j]], 1,
                                local_date, outcome),
             u, planets, j + 1, periods_map, local_date, outcome)

\* for user_id_str, user_data in users
RECURSIVE alerts_for_users(_, _, _, _, _)
alerts_for_users(st, k, periods_map, now, outcome) ==
    IF k > Len(SchedUsers) THEN st
    ELSE LET u == SchedUsers[k]
             tz_name == UserTimezone(u)
             allowed_planets == IF u \in PremiumUsers THEN TrackedPlanets
                                ELSE <<"Mercury">>
             next == IF st.aborted \/ ~st.users[u].enabled
                        \/ LocalHour(now, tz_name) # TargetHour
                     THEN st
                     ELSE alerts_for_planets(st, u, allowed_planets, 1, periods_map,
                                             LocalDate(now, tz_name), outcome[u])
         IN  alerts_for_users(next, k + 1, periods_map, now, outcome)

\* _send_retrograde_alerts(now)
SendRetrogradeAlerts ==
    /\ \A key \in DOMAIN aSent : aSent[key] < MaxSends
    /\ \E outcome \in [Range(SchedUsers) -> RetroSendOutcomes] :
          LET start_date == cNow \div DayHours
              end_date == start_date + HorizonDays
              statuses == [d \in AnalysisDays(start_date, end_date) |-> aSky[d]]
              periods_map == get_periods(statuses, start_date, end_date)
              st == [users |-> aUsers, sent |-> aSent, log |-> <<>>,
                     aborted |-> FALSE]
              r == IF \A planet \in DOMAIN periods_map : periods_map[planet] = <<>>
                   THEN st
                   ELSE alerts_for_users(st, 1, periods_map, cNow, outcome)
          IN  /\ aUsers' = r.users
              /\ aSent' = r.sent
              /\ aPass' = r.log
    /\ UNCHANGED <<cNow, cLast, cSent, cPass, aSky>>
    /\ UNCHANGED <<transitVars, houseVars, retroVars, forecastVars, plannerVars, lunarVars, pureVars, storeVars>>

\* ------------------------------------------------------------------------
\* Specifications
\* ------------------------------------------------------------------------
StartTransit ==
    InitTransit /\ IdleHouse /\ IdleRetro /\ IdleForecast /\ IdlePlanner /\ IdleLunar
    /\ IdlePure /\ IdleStore /\ IdleSched
NextTransit == FindTransitAspects
SpecTransit == StartTransit /\ [][NextTransit]_vars

StartHouse ==
    IdleTransit /\ InitHouse /\ IdleRetro /\ IdleForecast /\ IdlePlanner /\ IdleLunar
    /\ IdlePure /\ IdleStore /\ IdleSched
NextHouseCall == DetermineHouse
SpecHouse == StartHouse /\ [][NextHouseCall]_vars

StartRetro ==
    IdleTransit /\ IdleHouse /\ InitRetro /\ IdleForecast /\ IdlePlanner /\ IdleLunar
    /\ IdlePure /\ IdleStore /\ IdleSched
NextRetro == GetPeriods
SpecRetro == StartRetro /\ [][NextRetro]_vars

StartForecast ==
    IdleTransit /\ IdleHouse /\ IdleRetro /\ InitForecast /\ IdlePlanner /\ IdleLunar
    /\ IdlePure /\ IdleStore /\ IdleSched
NextForecast ==
    \/ BuildChart
    \/ Generate
    \/ RenderForecast
    \/ FormatMissingFields
SpecForecast == StartForecast /\ [][NextForecast]_vars

StartPlanner ==
    IdleTransit /\ IdleHouse /\ IdleRetro /\ IdleForecast /\ InitPlanner /\ IdleLunar
    /\ IdlePure /\ IdleStore /\ IdleSched
NextPlanner == SelectActions
SpecPlanner == StartPlanner /\ [][NextPlanner]_vars

StartWindow ==
    IdleTransit /\ IdleHouse /\ IdleRetro /\ IdleForecast /\ IdlePlanner /\ InitWindow
    /\ IdlePure /\ IdleStore /\ IdleSched
NextWindow == BuildWindow
SpecWindow == StartWindow /\ [][NextWindow]_vars

StartThreads ==
    IdleTransit /\ IdleHouse /\ IdleRetro /\ IdleForecast /\ IdlePlanner /\ InitThreads
    /\ IdlePure /\ IdleStore /\ IdleSched
NextThreads ==
    \E t \in Threads :
        \/ ThreadCall(t)
        \/ ThreadTest(t)
        \/ ThreadRead(t)
        \/ ThreadLoad(t)
        \/ ThreadStore(t)
        \/ ThreadPruneTest(t)
        \/ ThreadPruneKeys(t)
        \/ ThreadPruneCopy(t)
        \/ ThreadPruneAssign(t)
SpecThreads == StartThreads /\ [][NextThreads]_vars

StartDistance ==
    IdleTransit /\ IdleHouse /\ IdleRetro /\ IdleForecast /\ IdlePlanner /\ IdleLunar
    /\ InitDistance /\ IdleStore /\ IdleSched
NextDistance == AngularDistance
SpecDistance == StartDistance /\ [][NextDistance]_vars

StartPhase ==
    IdleTransit /\ IdleHouse /\ IdleRetro /\ IdleForecast /\ IdlePlanner /\ IdleLunar
    /\ InitPhase /\ IdleStore /\ IdleSched
NextPhase == PhaseFromAngle
SpecPhase == StartPhase /\ [][NextPhase]_vars

StartDay ==
    IdleTransit /\ IdleHouse /\ IdleRetro /\ IdleForecast /\ IdlePlanner /\ InitDay
    /\ IdlePure /\ IdleStore /\ IdleSched
NextDay == ComputeDay
SpecDay == StartDay /\ [][NextDay]_vars

StartLifePath ==
    IdleTransit /\ IdleHouse /\ IdleRetro /\ IdleForecast /\ IdlePlanner /\ IdleLunar
    /\ InitLifePath /\ IdleStore /\ IdleSched
NextLifePath == CalculateLifePathNumber
SpecLifePath == StartLifePath /\ [][NextLifePath]_vars

StartStore ==
    IdleTransit /\ IdleHouse /\ IdleRetro /\ IdleForecast /\ IdlePlanner /\ IdleLunar
    /\ IdlePure /\ InitStore /\ IdleSched
NextStore == RunLoop \/ StorageChange \/ SaveTaskStep \/ FlushPendingSaves
SpecStore == StartStore /\ [][NextStore]_vars

StartForecastPass ==
    IdleTransit /\ IdleHouse /\ IdleRetro /\ IdleForecast /\ IdlePlanner /\ IdleLunar
    /\ IdlePure /\ IdleStore /\ InitForecastPass
NextForecastPass == Tick \/ SendDailyTransitForecasts
SpecForecastPass == StartForecastPass /\ [][NextForecastPass]_vars

StartRetroPass ==
    IdleTransit /\ IdleHouse /\ IdleRetro /\ IdleForecast /\ IdlePlanner /\ IdleLunar
    /\ IdlePure /\ IdleStore /\ InitRetroPass
NextRetroPass == Tick \/ SendRetrogradeAlerts
SpecRetroPass == StartRetroPass /\ [][NextRetroPass]_vars

\* ------------------------------------------------------------------------
\* Claims about the aspect finder and the house locator
\* ------------------------------------------------------------------------
RawOrb(t, n, k) ==
    Abs(Deg(ASPECTS[k].angle) - angular_distance(transit.objects[t].lon, natal.objects[n].lon))

Emissions(t, n, k) ==
    {i \in DOMAIN aspects :
        /\ aspects[i].transit_planet = t
        /\ aspects[i].natal_planet = n
        /\ aspects[i].aspect = k}

\* C1: for every (transit object, natal object) pair and every aspect kind
\* of the table, find_transit_aspects emits the aspect (once) if and only
\* if |A_k - angular_distance| <= B_k * max_orb_multiplier.
C1_EmittedIffWithinOrb ==
    tpc = "done" =>
        \A t \in DOMAIN transit.objects, n \in DOMAIN natal.objects,
           k \in Range(AspectOrder) :
            LET within == RawOrb(t, n, k) * 10 <= Deg(ASPECTS[k].orb) * multiplier
            IN  /\ within => Cardinality(Emissions(t, n, k)) = 1
                /\ ~within => Emissions(t, n, k) = {}

\* an aspect emitted exactly on the bound under a multiplier of 1.5, and
\* another pair of the same charts left out
C1_Witness ==
    /\ tpc = "done"
    /\ multiplier = 15
    /\ \E k \in Range(AspectOrder) :
          /\ RawOrb("Mars", "Sun", k) * 10 = Deg(ASPECTS[k].orb) * multiplier
          /\ Emissions("Mars", "Sun", k) # {}
    /\ \E k \in Range(AspectOrder) : Emissions("Sun", "Moon", k) = {}

\* the orb of the pair after the transiting object moved one millidegree
\* in the direction of its speed (the natal object is fixed)
OrbAfterMotion(a) ==
    LET t == a.transit_position
        step == IF t.speed > 0 THEN 1 ELSE -1
    IN  Abs(Deg(ASPECTS[a.aspect].angle)
            - angular_distance(t.lon + step, a.natal_position.lon))

OrbNow(a) ==
    Abs(Deg(ASPECTS[a.aspect].angle)
        - angular_distance(a.transit_position.lon, a.natal_position.lon))

\* C5: for every emitted aspect whose transiting object has non-zero speed
\* and whose orb is non-zero, applying is true exactly when the motion of
\* the transiting object shrinks the orb, on both sides of the natal object.
C5_ApplyingIffOrbShrinks ==
    tpc = "done" =>
        \A i \in DOMAIN aspects :
            LET a == aspects[i]
            IN  (a.transit_position.speed # 0 /\ OrbNow(a) # 0)
                    => (a.applying <=> OrbAfterMotion(a) < OrbNow(a))

\* is the longitude in the half-open arc [a, b) of the circle
InArc(lon, a, b) ==
    IF a <= b THEN a <= lon /\ lon < b ELSE lon >= a \/ lon < b

NextHouse(i) == IF i = 12 THEN 1 ELSE i + 1

\* C4: for a map of 12 cusps the locator returns the house whose half-open
\* arc [cusp_i, cusp_{i+1}) contains the longitude (12 pairs with 1, an arc
\* with cusp_i > cusp_{i+1} wraps through 0); a longitude exactly on cusp_i
\* is placed in house i, never in the preceding house.
C4_HouseArcContainsLongitude ==
    (hpc = "done" /\ hHouses # NoHouses) =>
        /\ hResult \in 1..12
        /\ InArc(hLongitude, hHouses[hResult], hHouses[NextHouse(hResult)])
        /\ \A i \in 1..12 : hLongitude = hHouses[i] => hResult = i

\* a longitude exactly on the cusp of a house whose arc wraps through 0
C4_Witness ==
    /\ hpc = "done" /\ hHouses # NoHouses
    /\ hResult \in 2..11
    /\ hLongitude = hHouses[hResult]
    /\ hHouses[hResult] > hHouses[hResult + 1]

\* ------------------------------------------------------------------------
\* Claims about the retrograde extractor
\* ------------------------------------------------------------------------
SampledDays == DOMAIN rStatuses
LastSampled == CHOOSE d \in SampledDays : \A e \in SampledDays : e <= d
FirstSampled == CHOOSE d \in SampledDays : \A e \in SampledDays : d <= e

\* the day-range [start, end] of a period; an open period runs to the last
\* sampled day
DayRange(period) ==
    period.start..(IF period.end = NoDate THEN LastSampled ELSE period.end)

RetroDays(planet) == {d \in SampledDays : rStatuses[d][planet]}

\* C2: for each planet the union of the day-ranges of the returned periods
\* equals exactly the sampled days on which the planet is retrograde: no
\* retrograde day is missing, no day is covered twice, no direct day is
\* covered.
C2_PeriodsCoverExactlyRetroDays ==
    rpc = "done" =>
        \A planet \in Range(TrackedPlanets) :
            LET ps == rPeriods[planet]
            IN  /\ UNION {DayRange(ps[i]) : i \in DOMAIN ps} = RetroDays(planet)
                /\ \A i, j \in DOMAIN ps :
                      i # j => DayRange(ps[i]) \cap DayRange(ps[j]) = {}

\* retrograde on both edges of the sampled window and direct in between
C2_Witness ==
    /\ rpc = "done"
    /\ rStatuses[FirstSampled]["Mercury"] /\ rStatuses[LastSampled]["Mercury"]
    /\ Len(rPeriods["Mercury"]) = 2
    /\ Len(rPeriods["Venus"]) = 1

\* C3: a false->true transition on day d opens a period with start = d, a
\* true->false transition on day d closes the open period with end = d - 1,
\* a series still true on the last sampled day yields a period with
\* end = none; the series [F,F,T,T,T,F] over six days yields exactly one
\* period, from the third day to the fifth.
C3_TransitionsOpenAndClose ==
    rpc = "done" =>
        LET ps == rPeriods["Mercury"]
            s(d) == rStatuses[d]["Mercury"]
            first == FirstSampled
        IN  /\ \A d \in SampledDays \ {first} :
                  /\ (~s(d - 1) /\ s(d)) =>
                        \E i \in DOMAIN ps : ps[i].start = d
                  /\ (s(d - 1) /\ ~s(d)) =>
                        \E i \in DOMAIN ps : ps[i].end = d - 1
            /\ s(LastSampled) <=> \E i \in DOMAIN ps : ps[i].end = NoDate
            /\ (/\ Cardinality(SampledDays) = 6
                /\ \A d \in SampledDays :
                      s(d) <=> d \in (first + 2)..(first + 4))
                => ps = <<RetroPeriod("Mercury", first + 2, first + 4)>>

\* the six-day series [F,F,T,T,T,F] has been extracted
C3_Witness ==
    /\ rpc = "done"
    /\ Cardinality(SampledDays) = 6
    /\ \A d \in SampledDays :
          rStatuses[d]["Mercury"] <=> d \in (FirstSampled + 2)..(FirstSampled + 4)
    /\ Len(rPeriods["Mercury"]) = 1
    /\ rPeriods["Mercury"][1].end = FirstSampled + 4

\* ------------------------------------------------------------------------
\* Claims about the forecast orchestrator, the renderer and the chart builder
\* ------------------------------------------------------------------------
AfterGenerate == fpc \in {"generated", "rendered", "formatted"}

\* a field the profile lacks: its value is None (for the birth date also
\* the empty string)
Absent(field) ==
    \/ fProfile[field] = PyNone
    \/ field = "birth_date" /\ fProfile[field] = EmptyStr

AbsentFields == SelectSeq(<<"birth_date", "timezone", "lat", "lon">>, Absent)

\* C6: when the profile lacks any of birth date, timezone, latitude or
\* longitude, generate returns a ForecastResult whose missing_fields names
\* exactly the absent fields in the order birth_date, timezone, lat, lon,
\* with both snapshots none and no aspects, and asks the Ephemeris Provider
\* for nothing.
C6_MissingFieldsShortCircuit ==
    (AfterGenerate /\ AbsentFields # <<>>) =>
        /\ fOutcome.kind = "returned"
        /\ fOutcome.value.missing_fields = AbsentFields
        /\ fOutcome.value.natal_chart = NoChart
        /\ fOutcome.value.transit_chart = NoChart
        /\ fOutcome.value.aspects = <<>>
        /\ fCalls = 0

\* a profile without lat and lon, and a provider that would have failed
C6_Witness ==
    /\ fpc = "generated"
    /\ fProfile.lat = PyNone /\ fProfile.lon = PyNone
    /\ fProfile.birth_date = "'1990-05-15'" /\ fProfile.timezone = "'Europe/Moscow'"
    /\ fProvider.natal = "fails"
    /\ fOutcome.kind = "returned"
    /\ fOutcome.value.missing_fields = <<"lat", "lon">>

\* C7: generate never propagates an exception: for every profile and every
\* outcome of the Ephemeris Provider it returns a ForecastResult.
C7_GenerateNeverRaises ==
    AfterGenerate => fOutcome.kind = "returned"

\* C8: render_forecast on a result that is not ok returns a message naming
\* the missing fields by their user-facing labels; for [lat, lon] it names
\* the one label for coordinates, not the raw field names.
C8_RenderNamesLabels ==
    (fpc \in {"rendered", "formatted"} /\ ~ok(fOutcome.value)) =>
        /\ fText.sentence = "not_enough_data"
        /\ fText.names = format_missing_fields(fOutcome.value)

\* C9: when the Ephemeris Provider fails on the location, build_chart does
\* not raise: it returns a ChartSnapshot whose house map is empty.
C9_BuildChartDegradesToNoHouses ==
    (fpc = "chart_done" /\ fProvider.natal = "fails") =>
        /\ fOutcome.kind = "returned"
        /\ fOutcome.value.houses = NoHouses

\* ------------------------------------------------------------------------
\* Claims about the action ranker
\* ------------------------------------------------------------------------
\* a comes before b under (score desc, category count desc, slug asc)
ClaimedBefore(a, b) ==
    \/ a.score > b.score
    \/ /\ a.score = b.score
       /\ a.action.categories > b.action.categories
    \/ /\ a.score = b.score
       /\ a.action.categories = b.action.categories
       /\ SlugRank(a.action.slug) < SlugRank(b.action.slug)

\* C10: select_actions orders its candidates by advice score descending,
\* then by number of categories descending, then by slug ascending.
C10_OrderedByScoreCategoriesSlug ==
    ppc = "done" =>
        \A i, j \in DOMAIN pSelected :
            i < j => ClaimedBefore(pSelected[i], pSelected[j])

\* the actions of the catalog the user's tier may see, each with its score
\* for the phase of the day
EligibleSuggestions ==
    {Suggestion(pActions[i], pPhase) :
        i \in {j \in DOMAIN pActions : pPremium \/ ~pActions[j].premium_only}}

\* the candidates left by the relaxing threshold: score >= 2 if any, else
\* score >= 1 if any, else all
Qualifying ==
    LET two == {c \in EligibleSuggestions : c.score >= 2}
        one == {c \in EligibleSuggestions : c.score >= 1}
    IN  IF two # {} THEN two ELSE IF one # {} THEN one ELSE EligibleSuggestions

\* C11: select_actions returns the candidates with score >= 2 if any exist,
\* otherwise those with score >= 1 if any exist, otherwise all candidates,
\* truncated to limit (the best-scored kept); the result never has more than
\* limit entries and is non-empty whenever limit >= 1 and some action is
\* eligible for the tier.
C11_ThresholdRelaxesThenTruncates ==
    ppc = "done" =>
        /\ Len(pSelected) = Min(pLimit, Cardinality(Qualifying))
        /\ \A i \in DOMAIN pSelected : pSelected[i] \in Qualifying
        /\ \A i, j \in DOMAIN pSelected : i # j => pSelected[i] # pSelected[j]
        /\ \A c \in Qualifying \ Range(pSelected) :
              \A i \in DOMAIN pSelected : pSelected[i].score >= c.score
        /\ Len(pSelected) <= pLimit
        /\ (pLimit >= 1 /\ EligibleSuggestions # {}) => pSelected # <<>>

\* a call where no candidate reaches score 1, a premium-only action is held
\* back, and the limit cuts the list of all candidates
C11_Witness ==
    /\ ppc = "done"
    /\ \A c \in EligibleSuggestions : c.score < 1
    /\ \E i \in DOMAIN pActions : pActions[i].premium_only /\ ~pPremium
    /\ pLimit >= 1
    /\ Cardinality(EligibleSuggestions) > pLimit
    /\ Len(pSelected) = pLimit

\* C12: for a free user select_actions never returns a premium-only action,
\* for any phase, any limit and whichever threshold ends up applied.
C12_FreeUserNeverGetsPremiumOnly ==
    (ppc = "done" /\ ~pPremium) =>
        \A i \in DOMAIN pSelected : ~pSelected[i].action.premium_only

\* a free user's call where a premium-only action outscores everything that
\* is returned
C12_Witness ==
    /\ ppc = "done" /\ ~pPremium /\ pSelected # <<>>
    /\ \E i \in DOMAIN pActions :
          /\ pActions[i].premium_only
          /\ Suggestion(pActions[i], pPhase).score >= 2
          /\ \A k \in DOMAIN pSelected : pSelected[k].score < 1

\* ------------------------------------------------------------------------
\* Claims about the lunar day cache
\* ------------------------------------------------------------------------
SameArguments(a, b) ==
    /\ a.start = b.start /\ a.tz_name = b.tz_name
    /\ a.days = b.days /\ a.natal_chart = b.natal_chart

\* C13: two build_window calls with the same arguments on the same service
\* return identical lists of DayContext values, whatever the cache held and
\* whatever was evicted between or during the calls.
C13_BuildWindowIdempotent ==
    \A i, j \in DOMAIN lLog :
        SameArguments(lLog[i], lLog[j]) => lLog[i].contexts = lLog[j].contexts

\* C14: when a natal chart is supplied, the natal_house of every DayContext
\* returned is the house of that day's Moon in the supplied chart, whatever
\* earlier calls put into the cache.
C14_NatalHouseOfSuppliedChart ==
    \A i \in DOMAIN lLog :
        lLog[i].natal_chart # NoChart =>
            \A k \in DOMAIN lLog[i].contexts :
                lLog[i].contexts[k].natal_house =
                    determine_house(MoonLon(lLog[i].start + k - 1, lLog[i].tz_name),
                                    lLog[i].natal_chart.houses)

\* the DayContext a call for the date has to return
CorrectContext(date) == FreshDayContext(date, ThreadZone, ThreadChart)

\* C15: with two threads in _compute_day at once, no call fails, every
\* finished call has returned the DayContext of its date, and every cache
\* entry is the DayContext of its key (a concurrent write stores the same
\* value again).
C15_InterleavingsHarmless ==
    lThreads # NoThreads =>
        /\ \A t \in Threads : lThreads[t].result.kind # "raised"
        /\ \A t \in Threads :
              lThreads[t].result.kind = "returned" =>
                  lThreads[t].result.value = CorrectContext(lThreads[t].date)
        /\ \A i \in DOMAIN lCache :
              lCache[i].value = CorrectContext(lCache[i].key[1])

\* ------------------------------------------------------------------------
\* Further claims about the aspect finder
\* ------------------------------------------------------------------------
\* C16: the list returned by find_transit_aspects is sorted by weight
\* descending, and among aspects of equal weight by orb ascending.
C16_SortedByWeightThenOrb ==
    tpc = "done" =>
        \A i, j \in DOMAIN aspects :
            i < j =>
                /\ aspects[i].weight >= aspects[j].weight
                /\ aspects[i].weight = aspects[j].weight =>
                        aspects[i].orb <= aspects[j].orb

\* a call where the loops found two aspects of equal weight with the wider
\* orb first, next to an aspect of another weight
C16_Witness ==
    /\ tpc = "done"
    /\ \E i, j \in DOMAIN aspects :
          /\ i < j
          /\ aspects[i].weight = aspects[j].weight
          /\ aspects[i].orb < aspects[j].orb
          /\ aspects[i].natal_planet = "Moon" /\ aspects[j].natal_planet = "Sun"
          /\ aspects[i].transit_planet = aspects[j].transit_planet
    /\ \E i, j \in DOMAIN aspects : aspects[i].weight > aspects[j].weight

\* C17: angular_distance(a, b) lies in [0, 180], equals
\* min(|a - b| mod 360, 360 - |a - b| mod 360), and is the same with the
\* arguments swapped.
C17_DistanceBoundedAndSymmetric ==
    (upc = "done" /\ uFunc = "angular_distance") =>
        LET delta == Abs(uArgs[1] - uArgs[2]) % FullCircle
        IN  /\ uOut[1] >= 0 /\ uOut[1] <= HalfCircle
            /\ uOut[1] = Min(delta, FullCircle - delta)
            /\ uOut[1] = uOut[2]

\* longitudes more than a turn apart, the smaller first, whose difference
\* folds back past 180 degrees
C17_Witness ==
    /\ upc = "done" /\ uFunc = "angular_distance"
    /\ uArgs[1] < uArgs[2]
    /\ uArgs[2] - uArgs[1] > FullCircle
    /\ (uArgs[2] - uArgs[1]) % FullCircle > HalfCircle
    /\ uOut[1] = Deg(170)

\* ------------------------------------------------------------------------
\* Claims about the lunar phase mapping
\* ------------------------------------------------------------------------
\* the buckets with their ranges [from, to) in degrees; new_moon has two
PhaseRanges ==
    {<<"new_moon", 0, 20>>, <<"new_moon", 340, 360>>,
     <<"waxing_crescent", 20, 70>>, <<"first_quarter", 70, 110>>,
     <<"waxing_gibbous", 110, 160>>, <<"full_moon", 160, 200>>,
     <<"waning_gibbous", 200, 250>>, <<"last_quarter", 250, 300>>,
     <<"waning_crescent", 300, 340>>}
BucketsOf(angle) ==
    {r[1] : r \in {q \in PhaseRanges : Deg(q[2]) <= angle /\ angle < Deg(q[3])}}

\* C18: for every phase angle in [0, 360) the mapping returns the one bucket
\* whose range holds the angle: new_moon below 20 or from 340, then
\* waxing_crescent [20, 70), first_quarter [70, 110), waxing_gibbous
\* [110, 160), full_moon [160, 200), waning_gibbous [200, 250), last_quarter
\* [250, 300), waning_crescent [300, 340); 45 degrees is waxing_crescent.
C18_PhaseBucketByThresholds ==
    (upc = "done" /\ uFunc = "phase_from_angle") =>
        /\ BucketsOf(uArgs[1]) = {uOut[1]}
        /\ uArgs[1] = Deg(45) => uOut[1] = "waxing_crescent"

\* an angle exactly on a threshold, which belongs to the later bucket
C18_Witness ==
    /\ upc = "done" /\ uFunc = "phase_from_angle"
    /\ uArgs[1] = Deg(340)
    /\ uOut[1] = "new_moon"

\* ------------------------------------------------------------------------
\* Further claims about the retrograde extractor
\* ------------------------------------------------------------------------
\* C19: every period returned is well-formed: start <= end whenever end is
\* present, and pre_alert is 3 days before start, also for a period that
\* opens on the first sampled day or lasts a single day.
C19_PeriodsWellFormed ==
    rpc = "done" =>
        \A planet \in DOMAIN rPeriods :
            \A i \in DOMAIN rPeriods[planet] :
                LET period == rPeriods[planet][i]
                IN  /\ period.end # NoDate => period.start <= period.end
                    /\ period.start - period.pre_alert = 3
                    /\ period.planet = planet

\* Mercury retrograde on the first sampled day only and again for a single
\* day later, Venus retrograde to the end of the samples
C19_Witness ==
    /\ rpc = "done"
    /\ \E i, j \in DOMAIN rPeriods["Mercury"] :
          /\ i < j
          /\ rPeriods["Mercury"][i].start = rStart - PadBefore
          /\ rPeriods["Mercury"][i].end = rStart - PadBefore
          /\ rPeriods["Mercury"][j].start = rPeriods["Mercury"][j].end
    /\ \E k \in DOMAIN rPeriods["Venus"] : rPeriods["Venus"][k].end = NoDate

\* ------------------------------------------------------------------------
\* Further claims about the forecast orchestrator
\* ------------------------------------------------------------------------
\* C20: every ForecastResult returned by generate either has missing_fields
\* non-empty, both snapshots none and no aspects, or has missing_fields empty
\* and both snapshots present; ok holds exactly in the second case, and no
\* result has empty missing_fields together with an absent snapshot.
C20_ResultHasOneOfTwoShapes ==
    (AfterGenerate /\ fOutcome.kind = "returned") =>
        LET r == fOutcome.value
            incomplete == /\ r.missing_fields # <<>>
                          /\ r.natal_chart = NoChart /\ r.transit_chart = NoChart
                          /\ r.aspects = <<>>
            complete == /\ r.missing_fields = <<>>
                        /\ r.natal_chart # NoChart /\ r.transit_chart # NoChart
        IN  /\ incomplete \/ complete
            /\ ok(r) <=> complete
            /\ ~ok(r) <=> incomplete
            /\ ~(r.missing_fields = <<>>
                  /\ (r.natal_chart = NoChart \/ r.transit_chart = NoChart))

\* a profile with every field present whose birth date does not parse: the
\* result comes from the second return of generate
C20_Witness ==
    /\ fpc = "generated" /\ fOutcome.kind = "returned"
    /\ AbsentFields = <<>>
    /\ fProfile.birth_date = "'1990-13-40'"
    /\ fOutcome.value.missing_fields = <<"birth_date">>
    /\ ~ok(fOutcome.value)

\* ------------------------------------------------------------------------
\* Claims about the fields of an emitted aspect
\* ------------------------------------------------------------------------
\* C21: for every emitted aspect the orb field is >= 0 and exact is true
\* exactly when the orb field is <= 0.1 degrees; natal Sun at 10 degrees and
\* transiting Mars at 100 degrees give a square with orb 0.0 and exact true.
C21_ExactIffOrbFieldWithinTenth ==
    tpc = "done" =>
        /\ \A i \in DOMAIN aspects :
              /\ aspects[i].orb >= 0
              /\ aspects[i].exact <=> (aspects[i].orb <= 100)
        /\ (natal.objects["Sun"].lon = Deg(10) /\ transit.objects["Mars"].lon = Deg(100)) =>
              \E i \in DOMAIN aspects :
                  /\ aspects[i].transit_planet = "Mars" /\ aspects[i].natal_planet = "Sun"
                  /\ aspects[i].aspect = "square"
                  /\ aspects[i].orb = 0 /\ aspects[i].exact

\* ------------------------------------------------------------------------
\* Claims about the template lookup of the renderer
\* ------------------------------------------------------------------------
TripleOf(a) == <<a.transit_planet, a.aspect, a.natal_planet>>
\* the aspects of the result that have an exact or a default entry
WithEntry ==
    LET Has(a) == TripleOf(a) \in fTemplates.exact \/ a.aspect \in fTemplates.defaults
    IN  SelectSeq(fOutcome.value.aspects, Has)

\* C22: for each aspect the renderer uses the exact (transit planet, aspect
\* kind, natal planet) entry when there is one, otherwise the default entry
\* of the aspect kind, otherwise omits the aspect without raising; when no
\* aspect renders the output is the no-significant-transits sentence.
C22_TemplateLookupChain ==
    (fpc \in {"rendered", "formatted"} /\ ok(fOutcome.value)) =>
        /\ Len(fText.paragraphs) = Len(WithEntry)
        /\ \A i \in DOMAIN fText.paragraphs :
              /\ TripleOf(fText.paragraphs[i]) = TripleOf(WithEntry[i])
              /\ fText.paragraphs[i].template =
                    IF TripleOf(WithEntry[i]) \in fTemplates.exact
                    THEN "exact" ELSE "default"
        /\ fText.sentence =
              IF WithEntry = <<>> THEN "no_significant_transits" ELSE "heading"

\* a forecast where one aspect has both entries and another has neither
C22_Witness ==
    /\ fpc = "rendered" /\ ok(fOutcome.value)
    /\ fTemplates.exact # {}
    /\ \E i \in DOMAIN fText.paragraphs :
          /\ fText.paragraphs[i].template = "exact"
          /\ fText.paragraphs[i].aspect \in fTemplates.defaults
    /\ \E i \in DOMAIN fText.paragraphs : fText.paragraphs[i].template = "default"
    /\ Len(fText.paragraphs) = Len(fOutcome.value.aspects)

\* ------------------------------------------------------------------------
\* Claims about the numerology calculations
\* ------------------------------------------------------------------------
\* the digit sum of the characters of the date, summed again k times
RECURSIVE SumAgain(_, _)
SumAgain(date, k) ==
    IF k = 0 THEN SumDigits(SelectSeq(date, LAMBDA c : c # Dot))
    ELSE SumDigits(DigitsOf(SumAgain(date, k - 1)))

TrimTriggered ==
    lLast.kind = "call" /\ ~lLast.hit /\ lLast.before + 1 > lSize

\* C24: once a _compute_day call has returned the cache holds no more
\* entries than its capacity, and an insertion that exceeds the capacity
\* leaves half the capacity (rounded either way), for every capacity.
C24_CacheWithinCapacity ==
    lLast.kind = "call" =>
        /\ Len(lCache) <= lSize
        /\ TrimTriggered =>
              /\ Len(lCache) >= lSize \div 2
              /\ Len(lCache) <= (lSize + 1) \div 2

\* the key of the latest call
LastKey == <<lLast.date, lLast.tz_name>>

\* C25: when an insertion trims the cache, the entries kept are the latest
\* ones in insertion order, so the entry the call has just inserted is
\* still cached, whatever its date.
C25_TrimKeepsLatestInserted ==
    [][(TrimTriggered' /\ Len(lCache') <= Len(lCache)) =>
          LET all == DictSet(lCache, LastKey', lLast'.result)
          IN  /\ lCache' = SubSeq(all, Len(all) - Len(lCache') + 1, Len(all))
              /\ HasKey(lCache', LastKey')]_vars

\* C26: when a call finds a cached entry without a house and a natal chart
\* is supplied, the house is resolved and the cached entry itself carries it
\* after the call; the entry is not removed.
C26_HitUpgradesEntryInPlace ==
    (/\ lLast.kind = "call" /\ lLast.hit
     /\ lLast.cached[1].natal_house = NoHouse
     /\ lLast.natal_chart # NoChart) =>
        /\ lLast.result.natal_house =
              get_moon_natal_house(lLast.date, lLast.tz_name, lLast.natal_chart)
        /\ HasKey(lCache, LastKey)
        /\ DictGet(lCache, LastKey).natal_house = lLast.result.natal_house

\* ------------------------------------------------------------------------
\* Claims about the order of the periods of one planet
\* ------------------------------------------------------------------------
\* C28: for each planet the periods returned are sorted by start date and
\* pairwise disjoint, at least one sampled day on which the planet is not
\* retrograde lies between any two consecutive periods, and only the last
\* period of the list can have no end.
C28_PeriodsOrderedAndSeparated ==
    rpc = "done" =>
        \A planet \in DOMAIN rPeriods :
            LET ps == rPeriods[planet]
            IN  /\ \A i \in 1..(Len(ps) - 1) :
                      /\ ps[i].start < ps[i + 1].start
                      /\ ps[i].end # NoDate
                      /\ ps[i].end < ps[i + 1].start
                      /\ \E d \in SampledDays :
                            /\ ps[i].end < d /\ d < ps[i + 1].start
                            /\ ~rStatuses[d][planet]
                /\ \A i, j \in DOMAIN ps :
                      i # j => DayRange(ps[i]) \cap DayRange(ps[j]) = {}

\* three periods of Mercury a single direct day apart, the last one open
C28_Witness ==
    /\ rpc = "done"
    /\ Len(rPeriods["Mercury"]) = 3
    /\ rPeriods["Mercury"][2].start = rPeriods["Mercury"][1].end + 2
    /\ rPeriods["Mercury"][3].start = rPeriods["Mercury"][2].end + 2
    /\ rPeriods["Mercury"][3].end = NoDate

\* ------------------------------------------------------------------------
\* Claims about the storage
\* ------------------------------------------------------------------------
\* C27: a non-immediate _save_data() made while the event loop runs marks
\* the data as pending and starts the debounced save, so every change is in
\* the storage file at the latest when flush_pending_saves has run at
\* shutdown.
C27_ChangesWrittenByShutdown ==
    /\ (sOp.kind = "change" /\ ~sOp.immediate /\ sOp.loop = "running") =>
          sPending /\ sTask \in {"created", "sleeping", "writing"}
    /\ sLoop = "closed" => sFile = sData

\* ------------------------------------------------------------------------
\* Claims about the passes of the scheduler
\* ------------------------------------------------------------------------
\* C29: over any sequence of passes a user is sent at most one daily
\* forecast per local date: a forecast is sent only when last_forecast_sent
\* differs from the local date, last_forecast_sent becomes that date only
\* after the send succeeded, and a failed send, a result with missing fields
\* or any other skipped iteration leaves it unchanged.
C29_OneForecastPerLocalDate ==
    cPass # <<>> =>
        \A u \in DOMAIN cPass :
            /\ \A d \in LocalDates : cSent[u][d] <= 1
            /\ cPass[u].kind = "sent" =>
                  /\ cPass[u].before # cPass[u].date
                  /\ cLast[u] = cPass[u].date
            /\ cPass[u].kind # "sent" => cLast[u] = cPass[u].before
            /\ cLast[u] # NoDate => cSent[u][cLast[u]] = 1

\* the second user has had its forecast for two local dates and a repeated
\* pass in the same hour found the date marked; the first user has had one
\* forecast, none on the second day
C29_Witness ==
    /\ cPass # <<>>
    /\ cSent["u2"][1] = 1 /\ cSent["u2"][2] = 1
    /\ cPass["u2"].kind = "already_sent" /\ cPass["u2"].date = 2
    /\ cSent["u1"][0] = 1 /\ cSent["u1"][1] = 0 /\ cLast["u1"] = 0
    /\ cNow > DayHours + TargetHour

\* C30: over any sequence of passes each user is sent at most one pre-alert
\* and at most one start-alert per planet per period: an alert is sent only
\* when has_retro_alert is false for its (user, planet, type, date), and
\* mark_retro_alert has recorded the date before the same key is checked
\* again, so a later pass on the same local date sends nothing for it.
C30_OneAlertPerPeriodAndType ==
    aUsers # <<>> =>
        /\ \A key \in DOMAIN aSent : aSent[key] <= 1
        /\ \A i \in DOMAIN aPass :
              LET e == aPass[i]
              IN  /\ e.outcome # "none" => ~e.had
                  /\ e.had => e.outcome = "none"
                  /\ e.outcome \in {"ok", "blocked", "bad_request"} =>
                        aUsers[e.user].retro_alerts[e.planet][e.type] = e.date
                  /\ e.had => aUsers[e.user].retro_alerts[e.planet][e.type] = e.date

\* the first user has had the pre-alert of one period of Mercury and the
\* start-alert of another and of Venus, and a repeated pass on the second
\* day found the start-alerts marked
C30_Witness ==
    /\ aUsers # <<>>
    /\ aSent[<<"u1", "Mercury", "pre", 0>>] = 1
    /\ aSent[<<"u1", "Mercury", "start", 1>>] = 1
    /\ aSent[<<"u1", "Venus", "start", 1>>] = 1
    /\ \E i \in DOMAIN aPass :
          /\ aPass[i].user = "u1" /\ aPass[i].planet = "Mercury"
          /\ aPass[i].type = "start" /\ aPass[i].date = 1 /\ aPass[i].had
    /\ aSent[<<"u2", "Mercury", "start", 1>>] = 1

====
